---- MODULE Spec2Model ----
(***************************************************************************)
(* Model of the version-negotiation layer of the pet store API:            *)
(*   versioning_models.py  ApiVersion, VersionedEndpoint, VersionRegistry, *)
(*                         ShimRegistry                                    *)
(*   version_middleware.py VersionNegotiationMiddleware, VersionedAPIRouter*)
(*   pet_shims.py          the pet request / response shims                *)
(*   pet_routes.py         the route registrations and the handlers        *)
(*   pet_repository.py     InMemoryPetRepository                           *)
(* Strings are sequences of one-character strings, so that parsing,        *)
(* formatting, joining and the path regex are computed, not assumed.       *)
(***************************************************************************)
EXTENDS Integers, Sequences, FiniteSets, TLC

\* ------------------------------------------------------------------------
\* Bounds of the model
\* ------------------------------------------------------------------------

\* number of requests that may be in flight at the same time
MaxRequests == 1

\* number of pets the in-memory repository may come to hold
MaxPets == 1

\* ------------------------------------------------------------------------
\* Python's None and the values that stand for raised exceptions
\* ------------------------------------------------------------------------

\* an Optional value is a sequence of length 0 (None) or 1 (the value)
None == <<>>

Some(x) == <<x>>

\* ------------------------------------------------------------------------
\* Strings
\* ------------------------------------------------------------------------

Digits == {"0", "1", "2", "3", "4", "5", "6", "7", "8", "9"}

HexDash == Digits \cup {"a", "b", "c", "d", "e", "f", "-"}

DigitVal(c) ==
    CASE c = "0" -> 0 [] c = "1" -> 1 [] c = "2" -> 2 [] c = "3" -> 3
      [] c = "4" -> 4 [] c = "5" -> 5 [] c = "6" -> 6 [] c = "7" -> 7
      [] c = "8" -> 8 [] c = "9" -> 9

\* s is a non-empty run of characters of the class cls
AllIn(s, cls) == Len(s) > 0 /\ \A i \in 1..Len(s) : s[i] \in cls

\* Python's "$" matches at the end of the string and also just before a
\* newline that ends the string: the text the pattern body has to cover
DollarCores(s) ==
    {s} \cup (IF Len(s) > 0 /\ s[Len(s)] = "\n" THEN {SubSeq(s, 1, Len(s) - 1)} ELSE {})

\* int() of a run of decimal digits
RECURSIVE ToInt(_)
ToInt(s) ==
    IF s = <<>> THEN 0
    ELSE 10 * ToInt(SubSeq(s, 1, Len(s) - 1)) + DigitVal(s[Len(s)])

\* sep.join(parts)
RECURSIVE Join(_, _)
Join(sep, parts) ==
    IF parts = <<>> THEN <<>>
    ELSE IF Len(parts) = 1 THEN parts[1]
    ELSE parts[1] \o sep \o Join(sep, Tail(parts))

\* ------------------------------------------------------------------------
\* ApiVersion
\* ------------------------------------------------------------------------

\* the places of the "." at which _version_pattern matches s
VersionSplits(s) ==
    { <<core, k>> \in UNION {{c} \X (1..Len(c)) : c \in DollarCores(s)} :
        /\ core[k] = "."
        /\ AllIn(SubSeq(core, 1, k - 1), Digits)
        /\ AllIn(SubSeq(core, k + 1, Len(core)), Digits) }

\* ApiVersion(version_str) raises ValueError
ApiVersionRaises(version_str) == VersionSplits(version_str) = {}

\* ApiVersion(version_str): the object built when the pattern matches
ApiVersion(version_str) ==
    LET m == CHOOSE m \in VersionSplits(version_str) : TRUE
        core == m[1]
        k == m[2]
    IN [major |-> ToInt(SubSeq(core, 1, k - 1)),
        minor |-> ToInt(SubSeq(core, k + 1, Len(core))),
        str |-> version_str]

\* ApiVersion.__str__
Str(v) == v.str

\* ApiVersion.__eq__
VEq(a, b) == a.major = b.major /\ a.minor = b.minor

\* an order that looks at the major number only
VLt_major_only(a, b) == a.major < b.major

\* ApiVersion.__lt__
VLt(a, b) ==
    IF a.major < b.major THEN TRUE
    ELSE IF a.major > b.major THEN FALSE
    ELSE a.minor < b.minor

\* ApiVersion.__hash__ : the value a dict key is looked up by
VKey(v) == <<v.major, v.minor>>

\* ------------------------------------------------------------------------
\* VersionedEndpoint (its supported_versions list)
\* ------------------------------------------------------------------------

\* list.sort() / sorted(): stable, by __lt__
RECURSIVE InsertSorted(_, _)
InsertSorted(sorted, v) ==
    IF sorted = <<>> THEN <<v>>
    ELSE IF VLt(v, sorted[Len(sorted)])
         THEN Append(InsertSorted(SubSeq(sorted, 1, Len(sorted) - 1), v), sorted[Len(sorted)])
         ELSE Append(sorted, v)

RECURSIVE SortVersions(_)
SortVersions(l) ==
    IF l = <<>> THEN <<>>
    ELSE InsertSorted(SortVersions(SubSeq(l, 1, Len(l) - 1)), l[Len(l)])

\* "version in self.supported_versions"
supports_version(supported_versions, version) ==
    \E i \in 1..Len(supported_versions) : VEq(supported_versions[i], version)

\* get_latest_version raises ValueError on an empty list
get_latest_version_raises(supported_versions) == supported_versions = <<>>

\* the first element taken for the latest
get_latest_version_first(supported_versions) == supported_versions[1]

get_latest_version(supported_versions) == supported_versions[Len(supported_versions)]

\* the last place whose element equals x
IndexOf_last(l, x) ==
    CHOOSE i \in 1..Len(l) : VEq(l[i], x) /\ \A j \in (i + 1)..Len(l) : ~VEq(l[j], x)

\* list.index(x): the first place whose element equals x
IndexOf(l, x) == CHOOSE i \in 1..Len(l) : VEq(l[i], x) /\ \A j \in 1..(i - 1) : ~VEq(l[j], x)

\* get_version_chain raises ValueError for a version that is not a member
get_version_chain_raises(supported_versions, from_version) ==
    ~supports_version(supported_versions, from_version)

get_version_chain(supported_versions, from_version) ==
    SubSeq(supported_versions, IndexOf(supported_versions, from_version),
           Len(supported_versions))

\* ------------------------------------------------------------------------
\* VersionRegistry (eps is its _endpoints dict: path -> supported_versions)
\* ------------------------------------------------------------------------

\* registration that appends and does not sort
register_endpoint_unsorted(eps, path, version) ==
    IF path \in DOMAIN eps
    THEN [eps EXCEPT ![path] = Append(@, version)]
    ELSE [p \in DOMAIN eps \cup {path} |->
            IF p = path THEN SortVersions(<<version>>) ELSE eps[p]]

register_endpoint(eps, path, version) ==
    IF path \in DOMAIN eps
    THEN [eps EXCEPT ![path] = SortVersions(Append(@, version))]
    ELSE [p \in DOMAIN eps \cup {path} |->
            IF p = path THEN SortVersions(<<version>>) ELSE eps[p]]

\* Optional[VersionedEndpoint]
get_endpoint(eps, path) == IF path \in DOMAIN eps THEN Some(eps[path]) ELSE None

get_supported_versions(eps, path) ==
    IF get_endpoint(eps, path) = None THEN <<>> ELSE get_endpoint(eps, path)[1]

registry_supports_version(eps, path, version) ==
    IF get_endpoint(eps, path) = None THEN FALSE
    ELSE supports_version(get_endpoint(eps, path)[1], version)

\* ------------------------------------------------------------------------
\* ShimRegistry (a table is one of its two dicts: key -> shim function)
\* ------------------------------------------------------------------------

ShimKey(path, from_version, to_version) == <<path, VKey(from_version), VKey(to_version)>>

\* registration that keeps the function a key already has
register_shim_keeps_first(table, path, from_version, to_version, shim_fn) ==
    IF ShimKey(path, from_version, to_version) \in DOMAIN table THEN table
    ELSE [k \in DOMAIN table \cup {ShimKey(path, from_version, to_version)} |->
            IF k = ShimKey(path, from_version, to_version) THEN shim_fn ELSE table[k]]

register_shim(table, path, from_version, to_version, shim_fn) ==
    [k \in DOMAIN table \cup {ShimKey(path, from_version, to_version)} |->
        IF k = ShimKey(path, from_version, to_version) THEN shim_fn ELSE table[k]]

get_shim(table, path, from_version, to_version) ==
    IF ShimKey(path, from_version, to_version) \in DOMAIN table
    THEN Some(table[ShimKey(path, from_version, to_version)])
    ELSE None

\* ------------------------------------------------------------------------
\* Paths and VersionNegotiationMiddleware._normalize_path
\* ------------------------------------------------------------------------

API_VERSION_HEADER == <<"A", "P", "I", "-", "V", "e", "r", "s", "i", "o", "n">>

\* the path strings of the routes of pet_routes.py
PetsPath == <<"/", "p", "e", "t", "s">>

PetDetailRoute == PetsPath \o <<"/", "{", "p", "e", "t", "_", "i", "d", "}">>

SheltersPath == <<"/", "s", "h", "e", "l", "t", "e", "r", "s">>

ShelterDetailRoute ==
    SheltersPath \o <<"/", "{", "s", "h", "e", "l", "t", "e", "r", "_", "i", "d", "}">>

\* the path string register_pet_shims uses for the detail routes
PetDetailShimPath == PetsPath \o <<"/", "{", "i", "d", "}">>

\* str.split(sep) for a one-character separator
RECURSIVE Split(_, _)
Split(s, sep) ==
    IF \A i \in 1..Len(s) : s[i] # sep THEN <<s>>
    ELSE LET k == CHOOSE i \in 1..Len(s) : s[i] = sep /\ \A j \in 1..(i - 1) : s[j] # sep
         IN <<SubSeq(s, 1, k - 1)>> \o Split(SubSeq(s, k + 1, Len(s)), sep)

\* re.match(r'^[0-9a-f-]+$', segment)
LooksLikeParameter(segment) == \E core \in DollarCores(segment) : AllIn(core, HexDash)

NormalizeSegment(segment) ==
    IF LooksLikeParameter(segment) THEN <<"{", "i", "d", "}">> ELSE segment

_normalize_path(path) ==
    LET segments == Split(path, "/")
    IN Join(<<"/">>, [i \in 1..Len(segments) |-> NormalizeSegment(segments[i])])

\* ------------------------------------------------------------------------
\* Payloads: a dict or a pydantic model is [type, f], f the mapping from its
\* keys (field names) to their values; a list is [type |-> "list", items],
\* None is [type |-> "NoneType"]; a datetime is a tuple, None for no date
\* ------------------------------------------------------------------------

PetSpeciesV1 == {"dog", "cat", "bird"}

PetSpeciesV2 == PetSpeciesV1 \cup {"fish", "reptile"}

PetSpeciesV3 == PetSpeciesV2 \cup {"rabbit", "hamster"}

PetSizeV3 == {"small", "medium", "large"}

PetHealthStatusV3_1 == {"excellent", "good", "fair", "poor"}

\* the fields a model class declares without a default
RequiredFields(cls) ==
    CASE cls = "PetV1" -> {"id", "name", "species", "age"}
      [] cls = "PetCreateV1" -> {"name", "species", "age"}
      [] cls = "PetV2" -> {"id", "name", "species", "age"}
      [] cls = "PetCreateV2" -> {"name", "species", "age"}
      [] cls \in {"PetV3", "PetV3_1"} -> {"id", "name", "species", "age_months"}
      [] cls \in {"PetCreateV3", "PetCreateV3_1"} -> {"name", "species", "age_months"}

\* the fields a model class declares with a default, and that default
DefaultFields(cls) ==
    CASE cls \in {"PetV1", "PetCreateV1"} -> <<>>
      [] cls \in {"PetV2", "PetCreateV2"} -> [birth_date |-> None]
      [] cls \in {"PetV3", "PetCreateV3"} ->
            [birth_date |-> None, size |-> "medium", tags |-> <<>>]
      [] cls \in {"PetV3_1", "PetCreateV3_1"} ->
            [birth_date |-> None, size |-> "medium", tags |-> <<>>,
             health_status |-> "good"]

SpeciesOf(cls) ==
    CASE cls \in {"PetV1", "PetCreateV1"} -> PetSpeciesV1
      [] cls \in {"PetV2", "PetCreateV2"} -> PetSpeciesV2
      [] OTHER -> PetSpeciesV3

ModelFields(cls) == RequiredFields(cls) \cup DOMAIN DefaultFields(cls)

\* an exception in the place of a value
Raised(kind) == [type |-> kind]

IsRaised(x) ==
    x.type \in {"ValidationError", "TypeError", "JSONDecodeError", "HTTPException",
                "AttributeError"}

\* cls(**d): pydantic validation (extra keys are ignored, defaults filled in)
Construct(cls, d) ==
    IF /\ RequiredFields(cls) \subseteq DOMAIN d
       /\ d["species"] \in SpeciesOf(cls)
       /\ ("size" \in DOMAIN d /\ "size" \in ModelFields(cls) => d["size"] \in PetSizeV3)
       /\ ("health_status" \in DOMAIN d /\ "health_status" \in ModelFields(cls)
              => d["health_status"] \in PetHealthStatusV3_1)
    THEN [type |-> cls,
          f |-> [k \in ModelFields(cls) |->
                    IF k \in DOMAIN d THEN d[k] ELSE DefaultFields(cls)[k]]]
    ELSE Raised("ValidationError")

\* dict operations
DictSet(d, k, v) == [x \in DOMAIN d \cup {k} |-> IF x = k THEN v ELSE d[x]]

DictDel(d, k) == [x \in DOMAIN d \ {k} |-> d[x]]

DictDelIf(d, k) == IF k \in DOMAIN d THEN DictDel(d, k) ELSE d

\* datetime.now() - timedelta(days=age_years * 365), kept as the days subtracted
EstimatedBirthDate(age_years) == <<"now-days", age_years * 365>>

\* ------------------------------------------------------------------------
\* Request shims (pet_shims.py); request_data is the keyword-argument dict
\* ------------------------------------------------------------------------

HasBodyOfType(data, type) == "body" \in DOMAIN data /\ data["body"].type = type

shim_pet_request_v1_to_v2(request_data) ==
    IF HasBodyOfType(request_data, "dict")
    THEN LET b0 == request_data["body"].f
             b1 == IF "age" \in DOMAIN b0
                   THEN DictSet(b0, "birth_date", EstimatedBirthDate(b0["age"]))
                   ELSE b0
             b2 == IF "species" \in DOMAIN b1 /\ b1["species"] \notin PetSpeciesV2
                   THEN DictSet(b1, "species", "dog")
                   ELSE b1
         IN DictSet(request_data, "body", [type |-> "dict", f |-> b2])
    ELSE request_data

shim_pet_request_v2_to_v3(request_data) ==
    IF HasBodyOfType(request_data, "PetCreateV2")
    THEN LET b0 == request_data["body"].f
             b1 == IF "age" \in DOMAIN b0
                   THEN DictDel(DictSet(b0, "age_months", b0["age"] * 12), "age")
                   ELSE b0
             b2 == IF "size" \notin DOMAIN b1 THEN DictSet(b1, "size", "medium") ELSE b1
             b3 == IF "tags" \notin DOMAIN b2 THEN DictSet(b2, "tags", <<>>) ELSE b2
             b4 == IF "species" \in DOMAIN b3 /\ b3["species"] \notin PetSpeciesV3
                   THEN DictSet(b3, "species", "dog")
                   ELSE b3
         IN DictSet(request_data, "body", Construct("PetCreateV3", b4))
    ELSE request_data

shim_pet_request_v3_to_v3_1(request_data) ==
    IF HasBodyOfType(request_data, "PetCreateV3")
    THEN LET b0 == request_data["body"].f
             b1 == IF "health_status" \notin DOMAIN b0
                   THEN DictSet(b0, "health_status", "good")
                   ELSE b0
         IN DictSet(request_data, "body", Construct("PetCreateV3_1", b1))
    ELSE request_data

\* ------------------------------------------------------------------------
\* Response shims (pet_shims.py); response_data is a model, a list or None
\* ------------------------------------------------------------------------

NoneValue == [type |-> "NoneType"]

ListOf(items) == [type |-> "list", items |-> items]

IsList(response_data) == response_data.type = "list"

\* "not response_data": None or an empty list
IsFalsy(response_data) ==
    \/ response_data.type = "NoneType"
    \/ IsList(response_data) /\ response_data.items = <<>>

ResponseItemV2ToV1(item) ==
    LET b0 == DictDelIf(item.f, "birth_date")
        b1 == IF "species" \in DOMAIN b0 /\ b0["species"] \notin PetSpeciesV1
              THEN DictSet(b0, "species", "dog")
              ELSE b0
    IN Construct("PetV1", b1)

shim_pet_response_v2_to_v1(response_data) ==
    IF IsFalsy(response_data) THEN response_data
    ELSE IF IsList(response_data)
    THEN ListOf([i \in 1..Len(response_data.items) |->
                    ResponseItemV2ToV1(response_data.items[i])])
    ELSE ResponseItemV2ToV1(response_data)

\* a conversion that rounds the age to the nearest year
ResponseItemV3ToV2_rounds(item) ==
    LET b0 == IF "age_months" \in DOMAIN item.f
              THEN DictDel(DictSet(item.f, "age", (item.f["age_months"] + 6) \div 12),
                           "age_months")
              ELSE item.f
        b1 == DictDelIf(DictDelIf(b0, "size"), "tags")
        b2 == IF "species" \in DOMAIN b1 /\ b1["species"] \notin PetSpeciesV2
              THEN DictSet(b1, "species", "dog")
              ELSE b1
    IN Construct("PetV2", b2)

ResponseItemV3ToV2(item) ==
    LET b0 == IF "age_months" \in DOMAIN item.f
              THEN DictDel(DictSet(item.f, "age", item.f["age_months"] \div 12), "age_months")
              ELSE item.f
        b1 == DictDelIf(DictDelIf(b0, "size"), "tags")
        b2 == IF "species" \in DOMAIN b1 /\ b1["species"] \notin PetSpeciesV2
              THEN DictSet(b1, "species", "dog")
              ELSE b1
    IN Construct("PetV2", b2)

shim_pet_response_v3_to_v2(response_data) ==
    IF IsFalsy(response_data) THEN response_data
    ELSE IF IsList(response_data)
    THEN ListOf([i \in 1..Len(response_data.items) |->
                    ResponseItemV3ToV2(response_data.items[i])])
    ELSE ResponseItemV3ToV2(response_data)

ResponseItemV3_1ToV3(item) == Construct("PetV3", DictDelIf(item.f, "health_status"))

shim_pet_response_v3_1_to_v3(response_data) ==
    IF IsFalsy(response_data) THEN response_data
    ELSE IF IsList(response_data)
    THEN ListOf([i \in 1..Len(response_data.items) |->
                    ResponseItemV3_1ToV3(response_data.items[i])])
    ELSE ResponseItemV3_1ToV3(response_data)

\* calling a registered shim function by its name
ApplyRequestShim(shim_fn, data) ==
    CASE shim_fn = "shim_pet_request_v1_to_v2" -> shim_pet_request_v1_to_v2(data)
      [] shim_fn = "shim_pet_request_v2_to_v3" -> shim_pet_request_v2_to_v3(data)
      [] shim_fn = "shim_pet_request_v3_to_v3_1" -> shim_pet_request_v3_to_v3_1(data)

ApplyResponseShim(shim_fn, result) ==
    CASE shim_fn = "shim_pet_response_v2_to_v1" -> shim_pet_response_v2_to_v1(result)
      [] shim_fn = "shim_pet_response_v3_to_v2" -> shim_pet_response_v3_to_v2(result)
      [] shim_fn = "shim_pet_response_v3_1_to_v3" -> shim_pet_response_v3_1_to_v3(result)

\* ------------------------------------------------------------------------
\* Startup: the statements pet_routes.py runs when it is imported
\* ------------------------------------------------------------------------

V1_0 == <<"1", ".", "0">>

V2_0 == <<"2", ".", "0">>

V3_0 == <<"3", ".", "0">>

V3_1 == <<"3", ".", "1">>

AllPetVersions == <<V1_0, V2_0, V3_0, V3_1>>

\* the versioned_get / versioned_post / ... decorators, in file order
PetRoutes ==
    << [method |-> "GET", path |-> PetsPath, versions |-> AllPetVersions,
        handler |-> "get_pets"],
       [method |-> "GET", path |-> PetDetailRoute, versions |-> AllPetVersions,
        handler |-> "get_pet"],
       [method |-> "POST", path |-> PetsPath, versions |-> AllPetVersions,
        handler |-> "create_pet"],
       [method |-> "PUT", path |-> PetDetailRoute, versions |-> AllPetVersions,
        handler |-> "update_pet"],
       [method |-> "DELETE", path |-> PetDetailRoute, versions |-> AllPetVersions,
        handler |-> "delete_pet"],
       [method |-> "GET", path |-> SheltersPath, versions |-> <<V3_0, V3_1>>,
        handler |-> "get_shelters"],
       [method |-> "GET", path |-> ShelterDetailRoute, versions |-> <<V3_0, V3_1>>,
        handler |-> "get_shelter"] >>

\* versioned_route.decorator: register_endpoint for each version, in order
RECURSIVE RegisterVersions(_, _, _)
RegisterVersions(eps, path, versions) ==
    IF versions = <<>> THEN eps
    ELSE RegisterVersions(register_endpoint(eps, path, ApiVersion(Head(versions))),
                          path, Tail(versions))

\* the registrations of register_pet_shims, per table, in call order
PetRequestShims ==
    << <<PetsPath, V1_0, V2_0, "shim_pet_request_v1_to_v2">>,
       <<PetsPath, V2_0, V3_0, "shim_pet_request_v2_to_v3">>,
       <<PetsPath, V3_0, V3_1, "shim_pet_request_v3_to_v3_1">>,
       <<PetDetailShimPath, V1_0, V2_0, "shim_pet_request_v1_to_v2">>,
       <<PetDetailShimPath, V2_0, V3_0, "shim_pet_request_v2_to_v3">>,
       <<PetDetailShimPath, V3_0, V3_1, "shim_pet_request_v3_to_v3_1">> >>

PetResponseShims ==
    << <<PetsPath, V2_0, V1_0, "shim_pet_response_v2_to_v1">>,
       <<PetsPath, V3_0, V2_0, "shim_pet_response_v3_to_v2">>,
       <<PetsPath, V3_1, V3_0, "shim_pet_response_v3_1_to_v3">>,
       <<PetDetailShimPath, V2_0, V1_0, "shim_pet_response_v2_to_v1">>,
       <<PetDetailShimPath, V3_0, V2_0, "shim_pet_response_v3_to_v2">>,
       <<PetDetailShimPath, V3_1, V3_0, "shim_pet_response_v3_1_to_v3">> >>

RECURSIVE RegisterShims(_, _)
RegisterShims(table, regs) ==
    IF regs = <<>> THEN table
    ELSE RegisterShims(
            register_shim(table, Head(regs)[1], ApiVersion(Head(regs)[2]),
                          ApiVersion(Head(regs)[3]), Head(regs)[4]),
            Tail(regs))

\* ------------------------------------------------------------------------
\* The wrapper of equip_endpoint_with_shims (the versioned dispatcher)
\* ------------------------------------------------------------------------

\* request.json(): the parsed body, or JSONDecodeError for an empty body
RequestJson(body) == IF body.type = "NoneType" THEN Raised("JSONDecodeError") ELSE body

\* a forward loop that takes the hops from the last one down to the first
RECURSIVE ForwardShimsDown(_, _, _, _, _)
ForwardShimsDown(table, path, version_chain, i, acc) ==
    IF i < 1 THEN acc
    ELSE LET request_shim == get_shim(table, path, version_chain[i], version_chain[i + 1])
         IN IF request_shim # None
            THEN ForwardShimsDown(table, path, version_chain, i - 1,
                    [kwargs |-> ApplyRequestShim(request_shim[1], acc.kwargs),
                     calls |-> Append(acc.calls, <<"request_shim", request_shim[1]>>)])
            ELSE ForwardShimsDown(table, path, version_chain, i - 1, acc)

ForwardShims_descending(table, path, version_chain, i, acc) ==
    ForwardShimsDown(table, path, version_chain, Len(version_chain) - 1, acc)

\* the forward loop: hops i .. len(version_chain) - 1
RECURSIVE ForwardShims(_, _, _, _, _)
ForwardShims(table, path, version_chain, i, acc) ==
    IF i > Len(version_chain) - 1 THEN acc
    ELSE LET request_shim == get_shim(table, path, version_chain[i], version_chain[i + 1])
         IN IF request_shim # None
            THEN ForwardShims(table, path, version_chain, i + 1,
                    [kwargs |-> ApplyRequestShim(request_shim[1], acc.kwargs),
                     calls |-> Append(acc.calls, <<"request_shim", request_shim[1]>>)])
            ELSE ForwardShims(table, path, version_chain, i + 1, acc)

\* a backward loop that gives up at the first hop without a shim
RECURSIVE BackwardShims_stops_at_gap(_, _, _, _, _)
BackwardShims_stops_at_gap(table, path, version_chain, i, acc) ==
    IF i < 2 THEN acc
    ELSE LET response_shim == get_shim(table, path, version_chain[i], version_chain[i - 1])
         IN IF response_shim # None
            THEN BackwardShims_stops_at_gap(table, path, version_chain, i - 1,
                    [result |-> ApplyResponseShim(response_shim[1], acc.result),
                     calls |-> Append(acc.calls, <<"response_shim", response_shim[1]>>)])
            ELSE acc

\* the backward loop: hops i down to 1 (0-based, as range(len - 1, 0, -1))
RECURSIVE BackwardShims(_, _, _, _, _)
BackwardShims(table, path, version_chain, i, acc) ==
    IF i < 2 THEN acc
    ELSE LET response_shim == get_shim(table, path, version_chain[i], version_chain[i - 1])
         IN IF response_shim # None
            THEN BackwardShims(table, path, version_chain, i - 1,
                    [result |-> ApplyResponseShim(response_shim[1], acc.result),
                     calls |-> Append(acc.calls, <<"response_shim", response_shim[1]>>)])
            ELSE BackwardShims(table, path, version_chain, i - 1, acc)

\* the wrapper without its short-circuit: the latest version goes through the
\* body read and the shim loops like any other
WrapperEnter_always_shims(eps, table, path, api_version, kwargs, body) ==
    LET endpoint == get_endpoint(eps, path)
        direct == [raises |-> None, kwargs |-> kwargs, chain |-> <<>>, calls |-> <<>>]
    IN IF endpoint = None THEN direct
       ELSE LET supported == endpoint[1]
                requested_version ==
                    IF api_version = None THEN get_latest_version(supported)
                    ELSE api_version[1]
            IN IF "body" \notin DOMAIN kwargs /\ IsRaised(RequestJson(body))
               THEN [direct EXCEPT !.raises = Some(RequestJson(body).type)]
               ELSE IF get_version_chain_raises(supported, requested_version)
               THEN [direct EXCEPT !.raises = Some("ValueError")]
               ELSE LET kw == IF "body" \notin DOMAIN kwargs
                              THEN DictSet(kwargs, "body", RequestJson(body))
                              ELSE kwargs
                        version_chain == get_version_chain(supported, requested_version)
                        fwd == ForwardShims(table, path, version_chain, 1,
                                            [kwargs |-> kw, calls |-> <<>>])
                    IN [raises |-> None, kwargs |-> fwd.kwargs,
                        chain |-> version_chain, calls |-> fwd.calls]

\* the wrapper up to its call of endpoint_handler (lines 142-180):
\* what it is about to call the handler with, or the exception it raises
WrapperEnter(eps, table, path, api_version, kwargs, body) ==
    LET endpoint == get_endpoint(eps, path)
        direct == [raises |-> None, kwargs |-> kwargs, chain |-> <<>>, calls |-> <<>>]
    IN IF endpoint = None THEN direct
       ELSE LET supported == endpoint[1]
                latest_version == get_latest_version(supported)
                requested_version ==
                    IF api_version = None THEN latest_version ELSE api_version[1]
            IN IF VEq(requested_version, latest_version) THEN direct
               ELSE IF "body" \notin DOMAIN kwargs /\ IsRaised(RequestJson(body))
               THEN [direct EXCEPT !.raises = Some(RequestJson(body).type)]
               ELSE IF get_version_chain_raises(supported, requested_version)
               THEN [direct EXCEPT !.raises = Some("ValueError")]
               ELSE LET kw == IF "body" \notin DOMAIN kwargs
                              THEN DictSet(kwargs, "body", RequestJson(body))
                              ELSE kwargs
                        version_chain == get_version_chain(supported, requested_version)
                        fwd == ForwardShims(table, path, version_chain, 1,
                                            [kwargs |-> kw, calls |-> <<>>])
                    IN [raises |-> None, kwargs |-> fwd.kwargs,
                        chain |-> version_chain, calls |-> fwd.calls]

\* the wrapper after the handler has returned result (lines 185-195)
WrapperExit(table, path, version_chain, result) ==
    IF version_chain = <<>> THEN [result |-> result, calls |-> <<>>]
    ELSE BackwardShims(table, path, version_chain, Len(version_chain),
                       [result |-> result, calls |-> <<>>])

\* ------------------------------------------------------------------------
\* The handlers of pet_routes.py and InMemoryPetRepository
\* ------------------------------------------------------------------------

\* the parameters each handler declares
HandlerParams(handler) ==
    CASE handler \in {"get_pets", "create_pet"} -> {"request", "pet_repository"}
      [] handler \in {"get_pet", "update_pet", "delete_pet"} ->
            {"pet_id", "request", "pet_repository"}
      [] handler = "get_shelters" -> {"request"}
      [] handler = "get_shelter" -> {"shelter_id", "request"}

\* the keyword arguments the framework calls the wrapper with: functools.wraps
\* gives the wrapper the handler's signature
FrameworkKwargs(handler) ==
    [k \in HandlerParams(handler) |->
        CASE k = "request" -> "Request"
          [] k = "pet_repository" -> "InMemoryPetRepository"
          [] OTHER -> "path-parameter"]

\* the model class create_pet parses the body with, chosen by str(api_version)
CreateModelFor(api_version) ==
    LET text == IF api_version = None THEN V3_1 ELSE Str(api_version[1])
    IN CASE text = V1_0 -> "PetCreateV1"
         [] text = V2_0 -> "PetCreateV2"
         [] text = V3_0 -> "PetCreateV3"
         [] OTHER -> "PetCreateV3_1"

\* InMemoryPetRepository.create_pet: Pet(id=pet_id, **pet_data.dict())
NewPet(pet_id, pet_data) == Construct("PetV3_1", DictSet(pet_data.f, "id", pet_id))

Shelters ==
    << [type |-> "dict", f |-> [id |-> "1", name |-> "Happy Paws Shelter"]],
       [type |-> "dict", f |-> [id |-> "2", name |-> "Furry Friends Rescue"]],
       [type |-> "dict", f |-> [id |-> "3", name |-> "Whisker Haven"]] >>

\* endpoint_handler(**kwargs): [raises, result, pets], pets the repository after
CallHandler(handler, kwargs, api_version, body, repo) ==
    LET fail(kind) == [raises |-> Some(kind), result |-> NoneValue, pets |-> repo]
        ok(result, after) == [raises |-> None, result |-> result, pets |-> after]
    IN IF DOMAIN kwargs # HandlerParams(handler) THEN fail("TypeError")
       ELSE CASE handler = "get_pets" -> ok(ListOf(repo), repo)
              [] handler = "get_shelters" -> ok(ListOf(Shelters), repo)
              [] handler = "create_pet" ->
                    IF IsRaised(RequestJson(body)) THEN fail("JSONDecodeError")
                    ELSE LET pet_data ==
                                Construct(CreateModelFor(api_version), RequestJson(body).f)
                         IN IF IsRaised(pet_data) THEN fail("ValidationError")
                            ELSE IF IsRaised(NewPet(Len(repo) + 1, pet_data))
                            THEN fail("ValidationError")
                            ELSE ok(NewPet(Len(repo) + 1, pet_data),
                                    Append(repo, NewPet(Len(repo) + 1, pet_data)))

\* the framework's validation of the returned value against the route's
\* response_model (PetV3_1, List[PetV3_1], or the shelters' plain dicts)
FitsResponseModel(handler, result) ==
    CASE handler = "get_pets" ->
            IsList(result) /\ \A i \in 1..Len(result.items) :
                ~IsRaised(Construct("PetV3_1", result.items[i].f))
      [] handler = "create_pet" ->
            ~IsList(result) /\ ~IsFalsy(result) /\ ~IsRaised(Construct("PetV3_1", result.f))
      [] OTHER -> TRUE

SuccessStatus(handler) == IF handler = "create_pet" THEN 201 ELSE 200

\* ------------------------------------------------------------------------
\* Requests
\* ------------------------------------------------------------------------

Requests == 1..MaxRequests

\* the JSON bodies clients send
V1Body == [type |-> "dict", f |-> [name |-> "Fluffy", species |-> "dog", age |-> 3]]

V3_1Body ==
    [type |-> "dict",
     f |-> [name |-> "Rex", species |-> "rabbit", age_months |-> 40, size |-> "large",
            tags |-> <<"trained">>, health_status |-> "fair"]]

\* the paths clients ask for: the list routes, two pets by id, an unrouted path
PetAPath == PetsPath \o <<"/", "1", "2", "3", "e">>

PetBPath == PetsPath \o <<"/", "a", "-", "4">>

UnroutedPath == <<"/", "t", "o", "y", "s">>

RequestPaths == {PetsPath, PetAPath, PetBPath, SheltersPath, UnroutedPath}

\* the API-Version header: absent, empty, malformed, unregistered, registered
HeaderValues ==
    {None, Some(<<>>), Some(<<"v", "1">>), Some(<<"9", ".", "9">>),
     Some(V1_0), Some(V3_0), Some(V3_1)}

\* (a HEAD request is answered before its header is read)
RequestInputs ==
    [method : {"HEAD"}, path : RequestPaths, header : {None, Some(V3_1)}, body : {NoneValue}]
    \cup [method : {"GET"}, path : RequestPaths, header : HeaderValues, body : {NoneValue}]
    \cup [method : {"POST"}, path : RequestPaths, header : HeaderValues,
          body : {V1Body, V3_1Body}]

\* the API-Version header a stage behind the middleware may put on its response
DownstreamHeaders == {None, Some(V2_0)}

EmptyContent == [type |-> "empty"]

\* a text body: the f-string's literal text and the values put into it
Text(template, args) == [type |-> "text", template |-> template, args |-> args]

NoResponse == [status |-> 0, content |-> EmptyContent, version_header |-> None]

IdleRequest ==
    [pc |-> "idle", method |-> "", path |-> <<>>, header |-> None, body |-> NoneValue,
     api_version |-> None, next_calls |-> 0, handler |-> "", kwargs |-> <<>>,
     chain |-> <<>>, calls |-> <<>>, handler_calls |-> 0, returned |-> FALSE,
     result |-> NoneValue, raised |-> None, down |-> NoResponse, response |-> NoResponse]

VARIABLES
    boot,            \* how many statements of pet_routes.py have run
    endpoints,       \* version_registry._endpoints
    request_shims,   \* shim_registry._request_shims
    response_shims,  \* shim_registry._response_shims
    pets,            \* InMemoryPetRepository._pets, in insertion order
    req,             \* the requests in flight
    history,         \* the calls a caller of the library classes has made
    call             \* the library call under way: its inputs and its outcome

vars == <<boot, endpoints, request_shims, response_shims, pets, req, history, call>>

\* what only the callers of the library classes change
library == <<history, call>>

\* what only the application changes
application == <<boot, pets, req>>

\* no library call is under way
NoCall == [op |-> "none"]

registries == <<endpoints, request_shims, response_shims>>

Serving == boot = Len(PetRoutes) + 1

Init ==
    /\ boot = 0
    /\ endpoints = <<>>
    /\ request_shims = <<>>
    /\ response_shims = <<>>
    /\ pets = <<>>
    /\ req = [r \in Requests |-> IdleRequest]
    /\ history = <<>>
    /\ call = NoCall

\* pet_routes.py line 20: register_pet_shims()
RegisterPetShims ==
    /\ boot = 0
    /\ request_shims' = RegisterShims(request_shims, PetRequestShims)
    /\ response_shims' = RegisterShims(response_shims, PetResponseShims)
    /\ boot' = 1
    /\ UNCHANGED <<endpoints, pets, req, library>>

\* the next @pet_router.versioned_... decorator of pet_routes.py
VersionedRoute ==
    /\ boot \in 1..Len(PetRoutes)
    /\ endpoints' = RegisterVersions(endpoints, PetRoutes[boot].path, PetRoutes[boot].versions)
    /\ boot' = boot + 1
    /\ UNCHANGED <<request_shims, response_shims, pets, req, library>>

\* a request arrives
Receive(r, in) ==
    /\ Serving
    /\ req[r].pc = "idle"
    /\ req' = [req EXCEPT ![r] =
                [IdleRequest EXCEPT !.pc = "received", !.method = in.method,
                    !.path = in.path, !.header = in.header, !.body = in.body]]
    /\ UNCHANGED <<boot, registries, pets, library>>

\* a discovery that answers 404 for a path without versions
DiscoveryResponse_404(eps, path) ==
    LET versions == get_supported_versions(eps, _normalize_path(path))
    IN [status |-> IF versions # <<>> THEN 200 ELSE 404, content |-> EmptyContent,
        version_header |->
            IF versions # <<>>
            THEN Some(Join(<<",">>, [i \in 1..Len(versions) |-> Str(versions[i])]))
            ELSE None]

\* the middleware's answer to a HEAD request (lines 27-39)
DiscoveryResponse(eps, path) ==
    LET versions == get_supported_versions(eps, _normalize_path(path))
    IN [status |-> 200, content |-> EmptyContent,
        version_header |->
            IF versions # <<>>
            THEN Some(Join(<<",">>, [i \in 1..Len(versions) |-> Str(versions[i])]))
            ELSE None]

MissingHeaderResponse ==
    [status |-> 400, content |-> Text("Missing required header: {}", <<API_VERSION_HEADER>>),
     version_header |-> None]

InvalidFormatResponse(version_header) ==
    [status |-> 400,
     content |-> Text("Invalid API-Version format: {}. Expected format: major.minor",
                      <<version_header>>),
     version_header |-> None]

NotSupportedResponse(eps, path, requested_version) ==
    LET supported_versions == get_supported_versions(eps, path)
        version_str == Join(<<",", " ">>,
                            [i \in 1..Len(supported_versions) |-> Str(supported_versions[i])])
    IN [status |-> 406,
        content |-> Text("API version {} not supported for this endpoint. Supported versions: {}",
                         <<Str(requested_version), version_str>>),
        version_header |-> None]

\* the test written "if version_header is None": an empty header is not missing
HeaderMissing_is_none(header) == header = None

\* "if not version_header": the header is absent or empty
HeaderMissing(header) == header = None \/ header = Some(<<>>)

\* the request goes on to call_next without request.state.api_version set
PassOn_forgets_state(q, requested_version) ==
    [q EXCEPT !.pc = "next", !.next_calls = @ + 1]

\* lines 62-76 for a supported version: the version goes into request.state
\* and the request goes on to call_next
PassOn(q, requested_version) ==
    [q EXCEPT !.pc = "next", !.api_version = Some(requested_version), !.next_calls = @ + 1]

\* a middleware that registers the version a request asks for, for its path
MwDispatch_registers(r) ==
    /\ req[r].pc = "received"
    /\ LET q == req[r]
       IN /\ req' = [req EXCEPT ![r] =
                [q EXCEPT !.pc = "done", !.response = DiscoveryResponse(endpoints, q.path)]]
          /\ endpoints' =
                IF HeaderMissing(q.header) \/ ApiVersionRaises(q.header[1]) THEN endpoints
                ELSE register_endpoint(endpoints, _normalize_path(q.path),
                                       ApiVersion(q.header[1]))
    /\ UNCHANGED <<boot, request_shims, response_shims, pets, library>>

\* VersionNegotiationMiddleware.dispatch up to its return or its await of
\* call_next (lines 25-76)
MwDispatch(r) ==
    /\ req[r].pc = "received"
    /\ LET q == req[r]
           answer(resp) == [q EXCEPT !.pc = "done", !.response = resp]
       IN req' = [req EXCEPT ![r] =
            IF q.method = "HEAD" THEN answer(DiscoveryResponse(endpoints, q.path))
            ELSE IF HeaderMissing(q.header) THEN answer(MissingHeaderResponse)
            ELSE IF ApiVersionRaises(q.header[1])
            THEN answer(InvalidFormatResponse(q.header[1]))
            ELSE LET requested_version == ApiVersion(q.header[1])
                     path == _normalize_path(q.path)
                 IN IF ~registry_supports_version(endpoints, path, requested_version)
                    THEN [answer(NotSupportedResponse(endpoints, path, requested_version))
                            EXCEPT !.api_version = Some(requested_version)]
                    ELSE PassOn(q, requested_version)]
    /\ UNCHANGED <<boot, registries, pets, library>>

\* a path parameter of a route template: "{name}"
IsParamSegment(segment) ==
    Len(segment) >= 2 /\ segment[1] = "{" /\ segment[Len(segment)] = "}"

\* the router's match of a path against a route template
PathMatchesRoute(template, path) ==
    LET t == Split(template, "/")
        s == Split(path, "/")
    IN /\ Len(t) = Len(s)
       /\ \A i \in 1..Len(t) : t[i] = s[i] \/ (IsParamSegment(t[i]) /\ s[i] # <<>>)

\* the router's choice of a route for the method and path
RoutesAt(path) == {i \in 1..Len(PetRoutes) : PathMatchesRoute(PetRoutes[i].path, path)}

RouteFor(method, path) == {i \in RoutesAt(path) : PetRoutes[i].method = method}

\* call_next: the router finds no handler (404, or 405 for another method)
RouterRejects(r, hdr) ==
    /\ req[r].pc = "next"
    /\ RouteFor(req[r].method, req[r].path) = {}
    /\ req' = [req EXCEPT ![r].pc = "back",
                  ![r].down = [status |-> IF RoutesAt(req[r].path) = {} THEN 404 ELSE 405,
                               content |-> EmptyContent, version_header |-> hdr]]
    /\ UNCHANGED <<boot, registries, pets, library>>

\* a wrapper that reads the negotiated version from a place all requests
\* share: it finds the version any request past the middleware has put there
WrapperCall_shared_version(r) ==
    /\ req[r].pc = "next"
    /\ RouteFor(req[r].method, req[r].path) # {}
    /\ \E s \in DOMAIN req :
          /\ req[s].api_version # None
          /\ LET q == req[r]
                 handler == PetRoutes[CHOOSE i \in RouteFor(q.method, q.path) : TRUE].handler
                 w == WrapperEnter(endpoints, request_shims, q.path, req[s].api_version,
                                   FrameworkKwargs(handler), q.body)
             IN req' = [req EXCEPT ![r] =
                  IF w.raises # None
                  THEN [q EXCEPT !.pc = "back", !.handler = handler, !.raised = w.raises]
                  ELSE [q EXCEPT !.pc = "handler", !.handler = handler, !.kwargs = w.kwargs,
                                 !.chain = w.chain, !.calls = w.calls]]
    /\ UNCHANGED <<boot, registries, pets, library>>

\* call_next: the framework calls the wrapper, which runs up to its call of
\* the handler (lines 124-183)
WrapperCall(r) ==
    /\ req[r].pc = "next"
    /\ RouteFor(req[r].method, req[r].path) # {}
    /\ LET q == req[r]
           handler == PetRoutes[CHOOSE i \in RouteFor(q.method, q.path) : TRUE].handler
           w == WrapperEnter(endpoints, request_shims, q.path, q.api_version,
                             FrameworkKwargs(handler), q.body)
       IN req' = [req EXCEPT ![r] =
            IF w.raises # None
            THEN [q EXCEPT !.pc = "back", !.handler = handler, !.raised = w.raises]
            ELSE [q EXCEPT !.pc = "handler", !.handler = handler, !.kwargs = w.kwargs,
                           !.chain = w.chain, !.calls = w.calls]]
    /\ UNCHANGED <<boot, registries, pets, library>>

\* a wrapper that catches what the handler raises, runs the response shims
\* on an empty result and raises an error of its own
HandlerCall_catches(r, hdr) ==
    /\ req[r].pc = "handler"
    /\ LET q == req[r]
           h == CallHandler(q.handler, q.kwargs, q.api_version, q.body, pets)
           called == [q EXCEPT !.pc = "back", !.handler_calls = @ + 1,
                               !.calls = Append(@, <<"handler", q.handler>>)]
           w == WrapperExit(response_shims, q.path, q.chain, h.result)
       IN /\ Len(h.pets) <= MaxPets
          /\ pets' = h.pets
          /\ req' = [req EXCEPT ![r] =
                IF h.raises # None
                THEN [called EXCEPT !.calls = @ \o w.calls,
                                    !.raised = Some("HTTPException")]
                ELSE [called EXCEPT !.calls = @ \o w.calls, !.returned = TRUE,
                                    !.result = w.result,
                                    !.down = [status |-> SuccessStatus(q.handler),
                                              content |-> w.result,
                                              version_header |-> hdr]]]
    /\ UNCHANGED <<boot, registries, library>>

\* the wrapper's "await endpoint_handler(...)", the response shims and the
\* framework's serialisation of what the wrapper returns (lines 183-195)
HandlerCall(r, hdr) ==
    /\ req[r].pc = "handler"
    /\ LET q == req[r]
           h == CallHandler(q.handler, q.kwargs, q.api_version, q.body, pets)
           called == [q EXCEPT !.pc = "back", !.handler_calls = @ + 1,
                               !.calls = Append(@, <<"handler", q.handler>>)]
           w == WrapperExit(response_shims, q.path, q.chain, h.result)
       IN /\ Len(h.pets) <= MaxPets
          /\ pets' = h.pets
          /\ req' = [req EXCEPT ![r] =
                IF h.raises # None THEN [called EXCEPT !.raised = h.raises]
                ELSE IF ~FitsResponseModel(q.handler, w.result)
                THEN [called EXCEPT !.calls = @ \o w.calls, !.returned = TRUE,
                                    !.result = w.result,
                                    !.raised = Some("ResponseValidationError")]
                ELSE [called EXCEPT !.calls = @ \o w.calls, !.returned = TRUE,
                                    !.result = w.result,
                                    !.down = [status |-> SuccessStatus(q.handler),
                                              content |-> w.result,
                                              version_header |-> hdr]]]
    /\ UNCHANGED <<boot, registries, library>>

\* the response of the server's error handler for an uncaught exception
ServerErrorResponse(exc) ==
    [status |-> 500, content |-> [type |-> "json", detail |-> exc], version_header |-> None]

\* the header is set to the oldest pet version whatever was negotiated
Stamp_oldest(response, requested_version) ==
    IF response.version_header = None
    THEN [response EXCEPT !.version_header = Some(V1_0)]
    ELSE response

\* the header is set whether or not the response carries it
Stamp_always(response, requested_version) ==
    [response EXCEPT !.version_header = Some(Str(requested_version))]

\* lines 78-80: the header is added unless the response carries it already
Stamp(response, requested_version) ==
    IF response.version_header = None
    THEN [response EXCEPT !.version_header = Some(Str(requested_version))]
    ELSE response

\* dispatch after call_next (lines 76-82): the exception passes through, or
\* the response is stamped unless it carries the header already
MwReturn(r) ==
    /\ req[r].pc = "back"
    /\ LET q == req[r]
       IN req' = [req EXCEPT ![r] =
            IF q.raised # None
            THEN [q EXCEPT !.pc = "done", !.response = ServerErrorResponse(q.raised[1])]
            ELSE [q EXCEPT !.pc = "done", !.response = Stamp(q.down, q.api_version[1])]]
    /\ UNCHANGED <<boot, registries, pets, library>>

\* the response is sent; the request and its state are gone
Finish(r) ==
    /\ req[r].pc = "done"
    /\ req' = [req EXCEPT ![r] = IdleRequest]
    /\ UNCHANGED <<boot, registries, pets, library>>

Next ==
    \/ RegisterPetShims
    \/ VersionedRoute
    \/ \E r \in Requests, in \in RequestInputs : Receive(r, in)
    \/ \E r \in Requests : MwDispatch(r)
    \/ \E r \in Requests, hdr \in DownstreamHeaders : RouterRejects(r, hdr)
    \/ \E r \in Requests : WrapperCall(r)
    \/ \E r \in Requests, hdr \in DownstreamHeaders : HandlerCall(r, hdr)
    \/ \E r \in Requests : MwReturn(r)
    \/ \E r \in Requests : Finish(r)

Spec == Init /\ [][Next]_vars

\* ------------------------------------------------------------------------
\* Properties
\* ------------------------------------------------------------------------

\* the versions of a list, each once, in the order of their first occurrence
RECURSIVE Distinct(_)
Distinct(l) ==
    IF l = <<>> THEN <<>>
    ELSE LET front == SubSeq(l, 1, Len(l) - 1)
         IN IF supports_version(front, l[Len(l)]) THEN Distinct(front)
            ELSE Append(Distinct(front), l[Len(l)])

Strs(l) == [i \in 1..Len(l) |-> Str(l[i])]

\* the request carries a header that parses as major.minor
HeaderParses(q) == q.header # None /\ ~ApiVersionRaises(q.header[1])

\* the versions registered for the path the middleware looks up
RegisteredFor(q) ==
    IF _normalize_path(q.path) \in DOMAIN endpoints
    THEN endpoints[_normalize_path(q.path)]
    ELSE <<>>

\* the request's header names a version registered for its normalized path
NamesRegistered(q) ==
    /\ HeaderParses(q)
    /\ \E i \in 1..Len(RegisteredFor(q)) : VEq(RegisteredFor(q)[i], ApiVersion(q.header[1]))

\* the middleware passed the request on and the router found its handler
Dispatched(q) == q.next_calls > 0 /\ q.handler # ""

\* the request asks for a version older than the latest of its path
AsksOlder(q) ==
    /\ q.method # "HEAD"
    /\ NamesRegistered(q)
    /\ ~VEq(ApiVersion(q.header[1]), RegisteredFor(q)[Len(RegisteredFor(q))])

\* the response model of a pet version
PetModelOf(v) ==
    CASE VKey(v) = <<1, 0>> -> "PetV1"
      [] VKey(v) = <<2, 0>> -> "PetV2"
      [] VKey(v) = <<3, 0>> -> "PetV3"
      [] OTHER -> "PetV3_1"

HasShape(item, cls) == item.type = cls /\ DOMAIN item.f = ModelFields(cls)

\* a handler's result has the shape of version v
ShapedFor(handler, result, v) ==
    CASE handler = "get_pets" ->
            IsList(result) /\ \A i \in 1..Len(result.items) :
                                 HasShape(result.items[i], PetModelOf(v))
      [] handler = "create_pet" -> ~IsList(result) /\ HasShape(result, PetModelOf(v))
      [] OTHER -> result = ListOf(Shelters)

\* C1: every dispatched request for a supported version older than the latest
\* ends with the dispatcher having returned a result of the requested
\* version's shape (for 1.0: id, name, species and age in years, nothing else)
C1_ResultShapedForRequested ==
    \A r \in Requests :
        LET q == req[r]
        IN (q.pc = "done" /\ Dispatched(q) /\ AsksOlder(q))
            => (q.returned /\ ShapedFor(q.handler, q.result, ApiVersion(q.header[1])))

\* the fields a create payload of the latest version has and lacks
LatestShaped(payload) ==
    /\ {"name", "species", "age_months", "size", "tags", "health_status"}
            \subseteq DOMAIN payload.f
    /\ "age" \notin DOMAIN payload.f

\* C2: whenever the dispatcher calls a pet handler for a version older than
\* the latest, the body it passes has the latest version's shape
C2_HandlerGetsLatestShape ==
    \A r \in Requests :
        LET q == req[r]
        IN (q.handler_calls > 0 /\ AsksOlder(q) /\ q.handler \in {"get_pets", "create_pet"})
            => ("body" \in DOMAIN q.kwargs /\ LatestShaped(q.kwargs["body"]))

\* C3: a request for a concrete path of a route template, declaring a
\* version registered for that route, is looked up under the route's own
\* registry entry and is passed on, not rejected as unsupported
C3_ConcretePathsReachTheirRoute ==
    \A r \in Requests : \A i \in 1..Len(PetRoutes) :
        LET q == req[r]
            route == PetRoutes[i]
        IN (/\ q.pc = "done"
            /\ q.method # "HEAD"
            /\ HeaderParses(q)
            /\ PathMatchesRoute(route.path, q.path)
            /\ \E j \in 1..Len(route.versions) :
                  VEq(ApiVersion(route.versions[j]), ApiVersion(q.header[1])))
            => (_normalize_path(q.path) = route.path /\ q.next_calls = 1)

\* C4: a path's supported versions hold each registered version once
C4_NoDuplicateVersions ==
    \A p \in DOMAIN endpoints : \A i, j \in 1..Len(endpoints[p]) :
        i # j => ~VEq(endpoints[p][i], endpoints[p][j])

\* C5: a request whose header parses but names no version of its path ends
\* with 406, a body listing the path's versions once each in ascending order,
\* and neither the next stage nor a handler called
C5_UnsupportedListsVersions ==
    \A r \in Requests :
        LET q == req[r]
        IN (q.pc = "done" /\ q.method # "HEAD" /\ HeaderParses(q) /\ ~NamesRegistered(q))
            => /\ q.response.status = 406
               /\ q.response.content.type = "text"
               /\ q.response.content.args =
                    <<q.header[1], Join(<<",", " ">>, Strs(Distinct(RegisteredFor(q))))>>
               /\ q.next_calls = 0
               /\ q.handler_calls = 0

\* a 400 response whose body names the missing header
NamesMissingHeader(response) ==
    /\ response.status = 400
    /\ response.content.type = "text"
    /\ response.content.template = "Missing required header: {}"
    /\ response.content.args = <<API_VERSION_HEADER>>

\* a 400 response whose body holds the offending string and the expected format
NamesBadFormat(response, offending) ==
    /\ response.status = 400
    /\ response.content.type = "text"
    /\ response.content.template =
            "Invalid API-Version format: {}. Expected format: major.minor"
    /\ response.content.args = <<offending>>

C7_SupportedPassedOn ==
    \A r \in Requests :
        LET q == req[r]
        IN (q.pc \notin {"idle", "received"} /\ q.method # "HEAD" /\ NamesRegistered(q))
            => /\ q.next_calls = 1
               /\ q.api_version # None
               /\ Str(q.api_version[1]) = q.header[1]
               /\ VEq(q.api_version[1], ApiVersion(q.header[1]))
               /\ (q.pc = "done" => q.response.status \notin {400, 406})

C7_Witness ==
    \E r \in Requests :
        /\ req[r].pc = "done"
        /\ req[r].method # "HEAD"
        /\ NamesRegistered(req[r])
        /\ req[r].next_calls = 1
        /\ req[r].response.status = 201

\* C8: a HEAD request for a registered path ends with 200, an empty body and
\* the path's versions, once each, ascending, comma-joined in the header;
\* no handler is called
C8_DiscoveryListsVersions ==
    \A r \in Requests :
        LET q == req[r]
        IN (q.pc = "done" /\ q.method = "HEAD" /\ RegisteredFor(q) # <<>>)
            => /\ q.response.status = 200
               /\ q.response.content = EmptyContent
               /\ q.response.version_header =
                    Some(Join(<<",">>, Strs(Distinct(RegisteredFor(q)))))
               /\ q.next_calls = 0
               /\ q.handler_calls = 0

\* the versions a discovery response lists in its header
ReportedVersions(response) ==
    IF response.version_header = None \/ response.version_header = Some(<<>>) THEN <<>>
    ELSE Split(response.version_header[1], ",")

\* C9: a HEAD request for a path with no registered versions ends with 200,
\* an empty body and no version listed; it is never rejected and never
\* reaches the next stage or a handler
C9_DiscoveryOfUnversionedPath ==
    \A r \in Requests :
        LET q == req[r]
        IN (q.pc = "done" /\ q.method = "HEAD" /\ RegisteredFor(q) = <<>>)
            => /\ q.response.status = 200
               /\ q.response.content = EmptyContent
               /\ ReportedVersions(q.response) = <<>>
               /\ q.next_calls = 0
               /\ q.handler_calls = 0

C9_Witness ==
    \E r \in Requests :
        /\ req[r].pc = "done"
        /\ req[r].method = "HEAD"
        /\ req[r].path = UnroutedPath
        /\ req[r].response.status = 200

\* what stamping makes of the next stage's response
Stamped(q) ==
    [q.down EXCEPT !.version_header =
        IF q.down.version_header = None THEN Some(Str(q.api_version[1]))
        ELSE q.down.version_header]

\* C10 as stated: every request passed on ends with the response of the next
\* stage, its API-Version header the negotiated version if it carried none
\* and unchanged if it carried one
C10_Original ==
    \A r \in Requests :
        LET q == req[r]
        IN (q.pc = "done" /\ q.next_calls = 1) => q.response = Stamped(q)

\* C10 (amended): when the next stage returns a response, the request ends
\* with that response, its API-Version header the negotiated version if it
\* carried none and unchanged if it carried one; when the next stage raises,
\* the middleware stamps nothing and the 500 response carries no API-Version
C10_StampedUnlessCarried ==
    \A r \in Requests :
        LET q == req[r]
        IN (q.pc = "done" /\ q.next_calls = 1)
            => IF q.raised = None THEN q.response = Stamped(q)
               ELSE q.response.status = 500 /\ q.response.version_header = None

C10_Witness ==
    \E r \in Requests :
        /\ req[r].pc = "done"
        /\ req[r].next_calls = 1
        /\ req[r].raised = None
        /\ req[r].down.version_header # None
        /\ req[r].response.version_header = req[r].down.version_header
        /\ req[r].response.version_header # Some(Str(req[r].api_version[1]))

StartsRepository(lst) == Len(lst) <= Len(pets) /\ lst = SubSeq(pets, 1, Len(lst))

\* C12: a dispatched request for the latest version of its path has its
\* handler called exactly once, with the arguments the wrapper was called with,
\* no shim looked up or called, and what the handler returned is what the
\* wrapper returns
C12_LatestShortCircuits ==
    \A r \in Requests :
        LET q == req[r]
        IN (/\ q.pc \in {"back", "done"}
            /\ q.handler # ""
            /\ NamesRegistered(q)
            /\ ~AsksOlder(q))
            => /\ q.handler_calls = 1
               /\ q.calls = << <<"handler", q.handler>> >>
               /\ q.chain = <<>>
               /\ q.kwargs = FrameworkKwargs(q.handler)
               /\ (q.returned =>
                    CASE q.handler = "get_pets" ->
                            IsList(q.result) /\ StartsRepository(q.result.items)
                      [] q.handler = "create_pet" ->
                            \E i \in 1..Len(pets) : pets[i] = q.result
                      [] OTHER -> q.result = ListOf(Shelters))
               /\ (q.returned /\ q.raised = None => q.down.content = q.result)

C12_Witness ==
    \E r \in Requests :
        /\ req[r].pc = "done"
        /\ req[r].handler = "get_shelters"
        /\ req[r].header = Some(V3_1)
        /\ req[r].handler_calls = 1
        /\ req[r].calls = << <<"handler", "get_shelters">> >>
        /\ req[r].response.content = ListOf(Shelters)

\* C13: a dispatched request for a supported version older than the latest
\* never fails inside the dispatcher: its handler is called once and the
\* complete result is returned; and a request whose handler created a pet
\* ends with that result
C13_NoFailureInsideDispatcher ==
    \A r \in Requests :
        LET q == req[r]
        IN /\ (q.pc \in {"back", "done"} /\ q.handler # "" /\ AsksOlder(q))
                => (q.handler_calls = 1 /\ q.returned /\ q.raised = None)
           /\ (q.pc = "done" /\ q.handler = "create_pet" /\ q.returned)
                => (q.raised = None /\ q.response.content = q.result)

\* ------------------------------------------------------------------------
\* A caller of VersionRegistry: registrations in any order, a query between
\* them; an endpoint constructed directly before any registration
\* ------------------------------------------------------------------------

\* number of register_endpoint calls the caller makes
MaxRegistrations == 3

V1_9 == <<"1", ".", "9">>

V1_10 == <<"1", ".", "1", "0">>

RegistryPaths == {PetsPath, SheltersPath}

RegistryVersions == {V1_9, V1_10, V2_0}

\* length of the version list an endpoint is constructed with directly
MaxListed == 2

VersionLists == UNION {[1..n -> RegistryVersions] : n \in 0..MaxListed}

\* version_registry.register_endpoint(path, ApiVersion(version))
CallRegisterEndpoint(path, version) ==
    /\ Len(history) < MaxRegistrations
    /\ endpoints' = register_endpoint(endpoints, path, ApiVersion(version))
    /\ history' = Append(history, <<path, version>>)
    /\ call' = NoCall
    /\ UNCHANGED <<request_shims, response_shims, application>>

\* version_registry.get_supported_versions(path) and
\* version_registry.supports_version(path, ApiVersion(version))
CallGetSupportedVersions(path, version) ==
    /\ call.op = "none"
    /\ call' = [op |-> "get_supported_versions", path |-> path, version |-> version,
                supported |-> get_supported_versions(endpoints, path),
                supports |-> registry_supports_version(endpoints, path,
                                                       ApiVersion(version))]
    /\ UNCHANGED <<registries, application, history>>

\* version_registry.get_endpoint(path), and get_latest_version() of the
\* endpoint if there is one (as the wrapper asks, lines 144-155)
CallGetLatestVersion(path) ==
    /\ call.op = "none"
    /\ LET endpoint == get_endpoint(endpoints, path)
           raises == endpoint # None /\ get_latest_version_raises(endpoint[1])
       IN call' = [op |-> "get_latest_version", path |-> path,
                   found |-> endpoint # None, raises |-> raises,
                   latest |-> IF endpoint # None /\ ~raises
                              THEN Some(get_latest_version(endpoint[1]))
                              ELSE None]
    /\ UNCHANGED <<registries, application, history>>

\* VersionedEndpoint(path, [ApiVersion(s) for s in versions]).get_latest_version()
CallEndpointLatestVersion(versions) ==
    /\ call.op = "none"
    /\ history = <<>>
    /\ LET supported_versions ==
                SortVersions([i \in 1..Len(versions) |-> ApiVersion(versions[i])])
           raises == get_latest_version_raises(supported_versions)
       IN call' = [op |-> "VersionedEndpoint.get_latest_version", versions |-> versions,
                   raises |-> raises,
                   latest |-> IF raises THEN None
                              ELSE Some(get_latest_version(supported_versions))]
    /\ UNCHANGED <<registries, application, history>>

\* get_version_chain(ApiVersion(version)) of the endpoint registered for path
CallGetVersionChain(path, version) ==
    /\ call.op = "none"
    /\ get_endpoint(endpoints, path) # None
    /\ LET supported == get_endpoint(endpoints, path)[1]
           raises == get_version_chain_raises(supported, ApiVersion(version))
       IN call' = [op |-> "get_version_chain", path |-> path, version |-> version,
                   raises |-> raises,
                   chain |-> IF raises THEN None
                             ELSE Some(get_version_chain(supported, ApiVersion(version)))]
    /\ UNCHANGED <<registries, application, history>>

NextRegistry ==
    \/ \E path \in RegistryPaths, version \in RegistryVersions :
            CallRegisterEndpoint(path, version)
    \/ \E path \in RegistryPaths, version \in RegistryVersions :
            CallGetSupportedVersions(path, version)
    \/ \E path \in RegistryPaths : CallGetLatestVersion(path)
    \/ \E versions \in VersionLists : CallEndpointLatestVersion(versions)
    \/ \E path \in RegistryPaths, version \in RegistryVersions :
            CallGetVersionChain(path, version)

RegistrySpec == Init /\ [][NextRegistry]_vars

\* the version strings registered for path so far, in call order
RegisteredVersions(path) ==
    LET at == {i \in 1..Len(history) : history[i][1] = path}
    IN {history[i][2] : i \in at}

\* how often version_str was registered for path
TimesRegistered(path, version_str) ==
    Cardinality({i \in 1..Len(history) : history[i] = <<path, version_str>>})

\* version was registered for path
WasRegistered(path, version) ==
    \E s \in RegisteredVersions(path) : VEq(ApiVersion(s), version)

\* l is in ascending order (equal versions may repeat)
Ascending(l) == \A i, j \in 1..Len(l) : i < j => ~VLt(l[j], l[i])

\* C14: for a member version the chain starts at that version, ends at the
\* latest version, is ascending, and is the part of the supported versions
\* that follows every version below it; for a version that is not a member
\* the call raises and gives no chain
C14_ChainFromMember ==
    call.op = "get_version_chain" =>
        LET v == ApiVersion(call.version)
            supported == endpoints[call.path]
        IN IF WasRegistered(call.path, v)
           THEN /\ ~call.raises
                /\ call.chain # None
                /\ LET chain == call.chain[1]
                       before == Len(supported) - Len(chain)
                   IN /\ Len(chain) >= 1
                      /\ VEq(chain[1], v)
                      /\ \A s \in RegisteredVersions(call.path) :
                            ~VLt(chain[Len(chain)], ApiVersion(s))
                      /\ Ascending(chain)
                      /\ before >= 0
                      /\ chain = SubSeq(supported, before + 1, Len(supported))
                      /\ \A i \in 1..before : VLt(supported[i], v)
                      /\ (Strs(supported) = <<V1_9, V1_10, V2_0>> /\ call.version = V1_10
                            => Strs(chain) = <<V1_10, V2_0>>)
           ELSE call.raises /\ call.chain = None

C14_Witness ==
    /\ call.op = "get_version_chain"
    /\ history = << <<PetsPath, V2_0>>, <<PetsPath, V1_9>>, <<PetsPath, V1_10>> >>
    /\ call.path = PetsPath
    /\ call.version = V1_10
    /\ call.chain = Some(<<ApiVersion(V1_10), ApiVersion(V2_0)>>)

\* an endpoint constructed with versions gives their maximum for the latest,
\* one constructed with none raises
EndpointLatestIsMaximum ==
    call.op = "VersionedEndpoint.get_latest_version" =>
        IF call.versions = <<>> THEN call.raises /\ call.latest = None
        ELSE /\ ~call.raises
             /\ call.latest # None
             /\ \E i \in 1..Len(call.versions) : VEq(call.latest[1], ApiVersion(call.versions[i]))
             /\ \A i \in 1..Len(call.versions) : ~VLt(call.latest[1], ApiVersion(call.versions[i]))

\* C15 as stated: a path with registrations has a non-empty collection whose
\* latest version is its maximum; asking for the latest version of a path
\* without registrations raises an error
C15_Original ==
    /\ call.op = "get_latest_version" =>
        IF RegisteredVersions(call.path) # {}
        THEN /\ call.found
             /\ endpoints[call.path] # <<>>
             /\ ~call.raises
             /\ call.latest # None
             /\ WasRegistered(call.path, call.latest[1])
             /\ \A s \in RegisteredVersions(call.path) : ~VLt(call.latest[1], ApiVersion(s))
        ELSE call.raises /\ call.latest = None
    /\ EndpointLatestIsMaximum

\* C15 (amended): a path with registrations has a non-empty collection whose
\* latest version is its maximum; for a path without registrations the
\* registry has no endpoint (get_endpoint gives None): nothing is raised and
\* no version is given; get_latest_version raises only for an endpoint
\* constructed with no versions
C15_LatestIsMaximum ==
    /\ call.op = "get_latest_version" =>
        IF RegisteredVersions(call.path) # {}
        THEN /\ call.found
             /\ endpoints[call.path] # <<>>
             /\ ~call.raises
             /\ call.latest # None
             /\ WasRegistered(call.path, call.latest[1])
             /\ \A s \in RegisteredVersions(call.path) : ~VLt(call.latest[1], ApiVersion(s))
        ELSE ~call.found /\ ~call.raises /\ call.latest = None
    /\ EndpointLatestIsMaximum

C15_Witness ==
    /\ call.op = "get_latest_version"
    /\ history = << <<PetsPath, V1_10>>, <<PetsPath, V2_0>>, <<PetsPath, V1_9>> >>
    /\ call.path = PetsPath
    /\ call.latest = Some(ApiVersion(V2_0))

\* C16: get_supported_versions gives the versions registered for the path,
\* as often as each was registered, in ascending order, and the empty
\* sequence for a path never registered; supports_version is true exactly
\* for the versions registered for the path
C16_SupportedVersionsSorted ==
    call.op = "get_supported_versions" =>
        /\ Ascending(call.supported)
        /\ \A s \in RegistryVersions :
              Cardinality({i \in 1..Len(call.supported) : Str(call.supported[i]) = s})
                = TimesRegistered(call.path, s)
        /\ (RegisteredVersions(call.path) = {} => call.supported = <<>>)
        /\ (call.supports <=> WasRegistered(call.path, ApiVersion(call.version)))

C16_Witness ==
    /\ call.op = "get_supported_versions"
    /\ history = << <<PetsPath, V1_10>>, <<SheltersPath, V2_0>>, <<PetsPath, V1_9>> >>
    /\ call.path = PetsPath
    /\ Strs(call.supported) = <<V1_9, V1_10>>
    /\ call.version = V2_0
    /\ ~call.supports

\* ------------------------------------------------------------------------
\* A caller of ShimRegistry: registrations in either table, then a lookup
\* ------------------------------------------------------------------------

\* number of register_request_shim / register_response_shim calls made
MaxShimRegistrations == 2

ShimPaths == {PetsPath, PetDetailShimPath}

\* the (from, to) pairs: a hop, its reverse, and a hop to a version further on
ShimHops == {<<V1_0, V2_0>>, <<V2_0, V1_0>>, <<V1_0, V3_0>>}

ShimFunctions == {"shim_pet_request_v1_to_v2", "shim_pet_response_v2_to_v1"}

\* shim_registry.register_request_shim(path, from, to, shim_fn)
CallRegisterRequestShim(path, hop, shim_fn) ==
    /\ call.op = "none"
    /\ Len(history) < MaxShimRegistrations
    /\ request_shims' = register_shim(request_shims, path, ApiVersion(hop[1]),
                                      ApiVersion(hop[2]), shim_fn)
    /\ history' = Append(history, <<"request", path, hop, shim_fn>>)
    /\ UNCHANGED <<endpoints, response_shims, application, call>>

\* shim_registry.register_response_shim(path, from, to, shim_fn)
CallRegisterResponseShim(path, hop, shim_fn) ==
    /\ call.op = "none"
    /\ Len(history) < MaxShimRegistrations
    /\ response_shims' = register_shim(response_shims, path, ApiVersion(hop[1]),
                                       ApiVersion(hop[2]), shim_fn)
    /\ history' = Append(history, <<"response", path, hop, shim_fn>>)
    /\ UNCHANGED <<endpoints, request_shims, application, call>>

\* shim_registry.get_request_shim(path, from, to)
CallGetRequestShim(path, hop) ==
    /\ call.op = "none"
    /\ call' = [op |-> "get_shim", table |-> "request", path |-> path, hop |-> hop,
                shim |-> get_shim(request_shims, path, ApiVersion(hop[1]),
                                  ApiVersion(hop[2]))]
    /\ UNCHANGED <<registries, application, history>>

\* shim_registry.get_response_shim(path, from, to)
CallGetResponseShim(path, hop) ==
    /\ call.op = "none"
    /\ call' = [op |-> "get_shim", table |-> "response", path |-> path, hop |-> hop,
                shim |-> get_shim(response_shims, path, ApiVersion(hop[1]),
                                  ApiVersion(hop[2]))]
    /\ UNCHANGED <<registries, application, history>>

NextShims ==
    \/ \E path \in ShimPaths, hop \in ShimHops, shim_fn \in ShimFunctions :
            CallRegisterRequestShim(path, hop, shim_fn)
    \/ \E path \in ShimPaths, hop \in ShimHops, shim_fn \in ShimFunctions :
            CallRegisterResponseShim(path, hop, shim_fn)
    \/ \E path \in ShimPaths, hop \in ShimHops : CallGetRequestShim(path, hop)
    \/ \E path \in ShimPaths, hop \in ShimHops : CallGetResponseShim(path, hop)

ShimSpec == Init /\ [][NextShims]_vars

\* the registrations made in the table for exactly this path and hop
RegistrationsOf(table, path, hop) ==
    {i \in 1..Len(history) : history[i][1] = table /\ history[i][2] = path
                              /\ history[i][3] = hop}

\* C17: a lookup gives the function of the latest registration made in the
\* same table with exactly the same path, from and to, and nothing if there
\* was none: not another path's, not the reverse hop's, not another
\* version's, not the other table's
C17_LookupIsLastRegistration ==
    call.op = "get_shim" =>
        LET made == RegistrationsOf(call.table, call.path, call.hop)
        IN IF made = {} THEN call.shim = None
           ELSE LET last == CHOOSE i \in made : \A j \in made : j <= i
                IN call.shim = Some(history[last][4])

C17_Witness ==
    /\ call.op = "get_shim"
    /\ call.table = "request"
    /\ call.path = PetsPath
    /\ call.hop = <<V1_0, V2_0>>
    /\ history = << <<"request", PetsPath, <<V1_0, V2_0>>, "shim_pet_response_v2_to_v1">>,
                    <<"request", PetsPath, <<V1_0, V2_0>>, "shim_pet_request_v1_to_v2">> >>
    /\ call.shim = Some("shim_pet_request_v1_to_v2")

\* ------------------------------------------------------------------------
\* A caller of ApiVersion: parsing a text, comparing three versions,
\* sorting a list of versions
\* ------------------------------------------------------------------------

\* length of the texts given to ApiVersion(...)
MaxTextLen == 4

\* length of the lists sorted
MaxSorted == 3

TextAlphabet == {"0", "1", ".", "-", "a", "\n"}

Texts == UNION {[1..n -> TextAlphabet] : n \in 0..MaxTextLen}

V01_0 == <<"0", "1", ".", "0">>

\* versions to compare: minor 9 and 10, and two spellings of 1.0
ComparedVersions == {V1_0, V01_0, V1_9, V1_10, V2_0}

InitVersions ==
    /\ boot = 0
    /\ endpoints = <<>>
    /\ request_shims = <<>>
    /\ response_shims = <<>>
    /\ pets = <<>>
    /\ req = [r \in Requests |-> IdleRequest]
    /\ history = <<>>
    /\ call \in {[op |-> "to parse", text |-> text] : text \in Texts}
          \cup {[op |-> "to compare", versions |-> versions] :
                    versions \in [1..3 -> ComparedVersions]}
          \cup {[op |-> "to sort", versions |-> versions] :
                    versions \in UNION {[1..n -> ComparedVersions] : n \in 0..MaxSorted}}

\* ApiVersion(text), and str() of the object if it was built
CallApiVersion ==
    /\ call.op = "to parse"
    /\ call' = [op |-> "ApiVersion", text |-> call.text,
                raises |-> ApiVersionRaises(call.text),
                str |-> IF ApiVersionRaises(call.text) THEN None
                        ELSE Some(Str(ApiVersion(call.text)))]
    /\ UNCHANGED <<registries, application, history>>

\* a < b, a == b and hash(a) == hash(b) for each two of three versions
CallCompare ==
    /\ call.op = "to compare"
    /\ LET v == [i \in 1..3 |-> ApiVersion(call.versions[i])]
       IN call' = [op |-> "compare", versions |-> call.versions,
                   lt |-> [i \in 1..3 |-> [j \in 1..3 |-> VLt(v[i], v[j])]],
                   eq |-> [i \in 1..3 |-> [j \in 1..3 |-> VEq(v[i], v[j])]],
                   same_hash |-> [i \in 1..3 |-> [j \in 1..3 |-> VKey(v[i]) = VKey(v[j])]]]
    /\ UNCHANGED <<registries, application, history>>

\* sorted(versions), sorted(sorted(versions)), sorted(reversed(versions))
CallSort ==
    /\ call.op = "to sort"
    /\ LET v == [i \in 1..Len(call.versions) |-> ApiVersion(call.versions[i])]
           reversed == [i \in 1..Len(v) |-> v[Len(v) + 1 - i]]
       IN call' = [op |-> "sort", versions |-> call.versions,
                   sorted |-> SortVersions(v),
                   sorted_again |-> SortVersions(SortVersions(v)),
                   sorted_reversed |-> SortVersions(reversed)]
    /\ UNCHANGED <<registries, application, history>>

NextVersions == CallApiVersion \/ CallCompare \/ CallSort

VersionSpec == InitVersions /\ [][NextVersions]_vars

\* text has exactly the form <digits>.<digits>
StrictForm(text) ==
    \E k \in 1..Len(text) :
        /\ text[k] = "."
        /\ AllIn(SubSeq(text, 1, k - 1), Digits)
        /\ AllIn(SubSeq(text, k + 1, Len(text)), Digits)

\* C18: a text of the form <digits>.<digits> parses and formats back to the
\* same text; every other text fails to parse
C18_StrictParseRoundTrips ==
    call.op = "ApiVersion" =>
        IF StrictForm(call.text) THEN ~call.raises /\ call.str = Some(call.text)
        ELSE call.raises /\ call.str = None

\* (major, minor) of a version text
NumbersOf(version_str) == VKey(ApiVersion(version_str))

\* p is before q, first number first
PairLess(p, q) == p[1] < q[1] \/ (p[1] = q[1] /\ p[2] < q[2])

\* C19: of a < b, a == b, b < a exactly one holds; < is transitive and is the
\* order by major, then minor; == is equality of the (major, minor) pairs
\* and agrees with the hash; sorting gives an ascending arrangement of the
\* input, twice the same as once, and the same for any order of distinct
\* versions
C19_StrictTotalOrder ==
    /\ call.op = "compare" =>
        /\ \A i, j \in 1..3 :
              /\ (call.lt[i][j] /\ ~call.eq[i][j] /\ ~call.lt[j][i])
                    \/ (~call.lt[i][j] /\ call.eq[i][j] /\ ~call.lt[j][i])
                    \/ (~call.lt[i][j] /\ ~call.eq[i][j] /\ call.lt[j][i])
              /\ call.lt[i][j] <=>
                    PairLess(NumbersOf(call.versions[i]), NumbersOf(call.versions[j]))
              /\ call.eq[i][j] <=>
                    NumbersOf(call.versions[i]) = NumbersOf(call.versions[j])
              /\ call.eq[i][j] => call.same_hash[i][j]
        /\ \A i, j, k \in 1..3 : call.lt[i][j] /\ call.lt[j][k] => call.lt[i][k]
    /\ call.op = "sort" =>
        /\ Ascending(call.sorted)
        /\ Len(call.sorted) = Len(call.versions)
        /\ \A s \in ComparedVersions :
              Cardinality({i \in 1..Len(call.sorted) : Str(call.sorted[i]) = s})
                = Cardinality({i \in 1..Len(call.versions) : call.versions[i] = s})
        /\ call.sorted_again = call.sorted
        /\ ((\A i, j \in 1..Len(call.versions) :
                i # j => NumbersOf(call.versions[i]) # NumbersOf(call.versions[j]))
              => call.sorted_reversed = call.sorted)

C19_Witness ==
    /\ call.op = "compare"
    /\ call.versions = <<V1_10, V1_9, V2_0>>
    /\ call.lt[2][1]
    /\ call.lt[1][3]
    /\ call.lt[2][3]

\* ------------------------------------------------------------------------
\* The pet shims end to end: a payload of an older version is taken up the
\* request shims, stored as the repository stores it, and the stored record
\* is taken down the response shims
\* ------------------------------------------------------------------------

\* largest age in years of the payloads
MaxAge == 2

PetNames == {"Fluffy"}

BirthDates == {None, <<"date", 2020>>}

\* the create model of a version
PetCreateModelOf(version_str) ==
    CASE version_str = V1_0 -> "PetCreateV1"
      [] version_str = V2_0 -> "PetCreateV2"
      [] version_str = V3_0 -> "PetCreateV3"
      [] OTHER -> "PetCreateV3_1"

\* the field values a payload of a version can have
PayloadFields(version_str) ==
    CASE version_str = V1_0 ->
            [name : PetNames, species : PetSpeciesV1, age : 0..MaxAge]
      [] version_str = V2_0 ->
            [name : PetNames, species : PetSpeciesV2, age : 0..MaxAge,
             birth_date : BirthDates]
      [] OTHER ->
            [name : PetNames, species : PetSpeciesV3,
             age_months : {0, 7, 12 * MaxAge + 4}, birth_date : BirthDates,
             size : PetSizeV3, tags : {<<>>, <<"trained">>}]

\* a payload as parsed JSON (a dict) or as the version's create model
Payloads(version_str) ==
    {[type |-> t, f |-> f] : t \in {"dict", PetCreateModelOf(version_str)},
                             f \in PayloadFields(version_str)}

\* register_pet_shims() has run; a payload of an older version is at hand
InitPetShims ==
    /\ boot = 1
    /\ endpoints = <<>>
    /\ request_shims = RegisterShims(<<>>, PetRequestShims)
    /\ response_shims = RegisterShims(<<>>, PetResponseShims)
    /\ pets = <<>>
    /\ req = [r \in Requests |-> IdleRequest]
    /\ history = <<>>
    /\ call \in UNION {{[op |-> "to round-trip", version |-> v, payload |-> p] :
                            p \in Payloads(v)} : v \in {V1_0, V2_0, V3_0}}

\* InMemoryPetRepository.create_pet(pet_data): Pet(id=pet_id, **pet_data.dict())
StoreRecord(pet_data) ==
    IF pet_data.type = "dict" THEN Raised("AttributeError") ELSE NewPet(1, pet_data)

\* the request shims of the hops from the version to 3.1, the repository's
\* record of what they give, the response shims of the hops back
CallRoundTrip ==
    /\ call.op = "to round-trip"
    /\ LET supported == SortVersions([i \in 1..Len(AllPetVersions) |->
                                        ApiVersion(AllPetVersions[i])])
           version_chain == get_version_chain(supported, ApiVersion(call.version))
           up == ForwardShims(request_shims, PetsPath, version_chain, 1,
                              [kwargs |-> [body |-> call.payload], calls |-> <<>>])
           stored == StoreRecord(up.kwargs["body"])
           down == IF IsRaised(stored) THEN [result |-> stored, calls |-> <<>>]
                   ELSE BackwardShims(response_shims, PetsPath, version_chain,
                                      Len(version_chain),
                                      [result |-> stored, calls |-> <<>>])
       IN call' = [op |-> "round-trip", version |-> call.version,
                   payload |-> call.payload, latest |-> up.kwargs["body"],
                   calls |-> up.calls \o down.calls, result |-> down.result]
    /\ UNCHANGED <<registries, application, history>>

NextPetShims == CallRoundTrip

PetShimSpec == InitPetShims /\ [][NextPetShims]_vars

\* the response model of a version
PetRecordModelOf(version_str) ==
    CASE version_str = V1_0 -> "PetV1"
      [] version_str = V2_0 -> "PetV2"
      [] version_str = V3_0 -> "PetV3"
      [] OTHER -> "PetV3_1"

\* the round trip gave a record of the payload's version with the payload's
\* field values
RoundTripped ==
    /\ ~IsRaised(call.result)
    /\ HasShape(call.result, PetRecordModelOf(call.version))
    /\ \A k \in DOMAIN call.payload.f : call.result.f[k] = call.payload.f[k]

\* C20: a payload of version 1.0, 2.0 or 3.0 taken up the request shims to
\* 3.1 and back down the response shims has its original field values
C20_RoundTripLaw == call.op = "round-trip" => RoundTripped

\* what holds of the round trip: a payload given as the create model of 2.0
\* or 3.0 comes back with its field values
TypedNewerPayloadsRoundTrip ==
    (/\ call.op = "round-trip"
     /\ call.version \in {V2_0, V3_0}
     /\ call.payload.type # "dict") => RoundTripped


\* ------------------------------------------------------------------------
\* Properties of the application: the registries, the dispatcher's events
\* ------------------------------------------------------------------------

\* the request went through the request shims of its chain
WentThroughShims(q) ==
    \E i \in 1..Len(q.calls) : q.calls[i][1] = "request_shim"

\* C21: once startup registration has finished, no step of request handling
\* (discovery, rejection, or dispatch through a shim chain) changes the
\* contents of the version registry or of either shim table
C21_RegistriesReadOnlyWhileServing == [][Serving => registries' = registries]_vars

C21_Witness ==
    /\ Serving
    /\ endpoints[PetsPath] # <<>>
    /\ \E r \in Requests :
          /\ req[r].pc = "done"
          /\ req[r].method = "POST"
          /\ req[r].header = Some(V1_0)
          /\ WentThroughShims(req[r])


\* the wrapper called the handler and the call raised
HandlerRaised(q) == q.handler_calls = 1 /\ ~q.returned

\* C24: when the call of the handler raises, on the short-circuit path or
\* after the request shims, the wrapper raises that same error: nothing is
\* called after the handler, no response shim runs, and the error the server
\* answers with is the handler's
C24_HandlerErrorPropagates ==
    \A r \in Requests :
        LET q == req[r]
            raises == CallHandler(q.handler, q.kwargs, q.api_version, q.body, <<>>).raises
        IN HandlerRaised(q)
            => /\ raises # None
               /\ q.raised = raises
               /\ q.calls[Len(q.calls)] = <<"handler", q.handler>>
               /\ \A i \in 1..Len(q.calls) : q.calls[i][1] # "response_shim"
               /\ (q.pc = "done" => q.response = ServerErrorResponse(raises[1]))

C24_Witness ==
    \E r \in Requests :
        /\ req[r].pc = "done"
        /\ HandlerRaised(req[r])
        /\ Len(req[r].chain) > 1
        /\ WentThroughShims(req[r])
        /\ req[r].response = ServerErrorResponse("TypeError")

\* the paths of the pet routes
PetRoutePaths == {PetsPath, PetDetailRoute}

\* lo and hi are neighbours among the distinct versions registered for path
AdjacentFor(path, lo, hi) ==
    /\ path \in DOMAIN endpoints
    /\ LET d == Distinct(endpoints[path])
       IN \E i \in 1..(Len(d) - 1) : VKey(d[i]) = lo /\ VKey(d[i + 1]) = hi

\* a path a request can have that the middleware accepts and the wrapper
\* then uses for its shim lookups
LookedUpPath(path) ==
    \E p \in RequestPaths : p = path /\ _normalize_path(p) \in DOMAIN endpoints

\* the keys of the shims of one path are the hops of that path's versions
KeysMatchRoute(path) ==
    /\ \A key \in DOMAIN request_shims :
            key[1] = path => AdjacentFor(path, key[2], key[3]) /\ LookedUpPath(path)
    /\ \A key \in DOMAIN response_shims :
            key[1] = path => AdjacentFor(path, key[3], key[2]) /\ LookedUpPath(path)

\* every hop of the path's versions has its request and its response shim
HopsHaveShims(path) ==
    /\ path \in DOMAIN endpoints
    /\ LET d == Distinct(endpoints[path])
       IN \A i \in 1..(Len(d) - 1) :
            /\ get_shim(request_shims, path, d[i], d[i + 1]) # None
            /\ get_shim(response_shims, path, d[i + 1], d[i]) # None

\* C28: once the routes are registered, every key a pet shim is registered
\* under has a path that is a key of the version registry and that the
\* wrapper looks shims up under, and a from and to that are neighbouring
\* versions of that path; and every pair of neighbouring versions of every
\* pet route has its request shim and its response shim
C28_ShimKeysMatchRoutes ==
    Serving =>
        /\ \A key \in DOMAIN request_shims \cup DOMAIN response_shims :
                KeysMatchRoute(key[1])
        /\ \A path \in PetRoutePaths : HopsHaveShims(path)

\* what holds: the keys registered for the list route /pets are the hops of
\* its versions, and each of its hops has both shims
ListRouteShimKeysMatch == Serving => KeysMatchRoute(PetsPath) /\ HopsHaveShims(PetsPath)

\* the wrapper has got as far as calling the handler
AtHandlerCall(q) == q.pc = "handler" \/ q.handler_calls > 0

\* C29: whenever the wrapper calls the handler, the argument names it passes
\* are exactly the names the framework called the wrapper with
C29_HandlerGetsWrapperArgumentNames ==
    \A r \in Requests :
        LET q == req[r]
        IN AtHandlerCall(q) => DOMAIN q.kwargs = DOMAIN FrameworkKwargs(q.handler)

\* what holds: for the latest version the names are the framework's; for an
\* older version they are the framework's and "body", no name is dropped
\* and the framework's values are passed as they came
HandlerGetsBodyAdded ==
    \A r \in Requests :
        LET q == req[r]
        IN AtHandlerCall(q)
            => /\ DOMAIN q.kwargs =
                    DOMAIN FrameworkKwargs(q.handler)
                    \cup (IF AsksOlder(q) THEN {"body"} ELSE {})
               /\ \A k \in DOMAIN FrameworkKwargs(q.handler) :
                    q.kwargs[k] = FrameworkKwargs(q.handler)[k]

\* ------------------------------------------------------------------------
\* Requests handled concurrently: the server is up and several requests are
\* in flight, each suspended at an await of the middleware or the wrapper
\* while the others run
\* ------------------------------------------------------------------------

\* number of requests in flight at the same time
MaxConcurrent == 2

Siblings == 1..MaxConcurrent

\* the registry after every decorator of pet_routes.py has run
RECURSIVE RegisterRoutes(_, _)
RegisterRoutes(eps, i) ==
    IF i > Len(PetRoutes) THEN eps
    ELSE RegisterRoutes(RegisterVersions(eps, PetRoutes[i].path, PetRoutes[i].versions),
                        i + 1)

StartupEndpoints == RegisterRoutes(<<>>, 1)

StartupRequestShims == RegisterShims(<<>>, PetRequestShims)

StartupResponseShims == RegisterShims(<<>>, PetResponseShims)

\* requests for the list routes: for an older and for the latest version,
\* with and without a body, and one the router has no handler for
ConcurrentInputs ==
    [method : {"GET"}, path : {PetsPath}, header : {Some(V1_0), Some(V3_1)},
     body : {NoneValue}]
    \cup [method : {"GET"}, path : {SheltersPath}, header : {Some(V3_0)},
          body : {NoneValue}]
    \cup [method : {"POST"}, path : {PetsPath},
          header : {Some(V1_0), Some(V3_0), Some(V3_1)}, body : {V3_1Body}]
    \cup [method : {"POST"}, path : {SheltersPath}, header : {Some(V3_0)},
          body : {V3_1Body}]

\* the module has been imported, the server accepts connections
InitConcurrent ==
    /\ boot = Len(PetRoutes) + 1
    /\ endpoints = StartupEndpoints
    /\ request_shims = StartupRequestShims
    /\ response_shims = StartupResponseShims
    /\ pets = <<>>
    /\ req = [r \in Siblings |-> IdleRequest]
    /\ history = <<>>
    /\ call = NoCall

NextConcurrent ==
    \/ \E r \in Siblings, in \in ConcurrentInputs : Receive(r, in)
    \/ \E r \in Siblings : MwDispatch(r)
    \/ \E r \in Siblings, hdr \in DownstreamHeaders : RouterRejects(r, hdr)
    \/ \E r \in Siblings : WrapperCall(r)
    \/ \E r \in Siblings, hdr \in DownstreamHeaders : HandlerCall(r, hdr)
    \/ \E r \in Siblings : MwReturn(r)
    \/ \E r \in Siblings : Finish(r)

ConcurrentSpec == InitConcurrent /\ [][NextConcurrent]_vars

\* what the wrapper does with the request's own header, path and body
OwnDispatch(q) ==
    WrapperEnter(StartupEndpoints, StartupRequestShims, q.path,
                 Some(ApiVersion(q.header[1])), FrameworkKwargs(q.handler), q.body)

\* the response shims the wrapper calls for a chain
ResponseShimCalls(path, version_chain) ==
    WrapperExit(StartupResponseShims, path, version_chain, NoneValue).calls

\* C22: whatever the other requests in flight are doing, an accepted request
\* has in its state the version of its own header; the chain, the shims
\* applied and the arguments handed to its handler are those its own header,
\* path and body give; and the version stamped on its response is its own
C22_NegotiatedStateIsRequestLocal ==
    \A r \in DOMAIN req :
        LET q == req[r]
        IN (q.pc \notin {"idle", "received"} /\ q.next_calls = 1)
            => /\ q.api_version # None
               /\ Str(q.api_version[1]) = q.header[1]
               /\ (q.handler # "" =>
                    IF OwnDispatch(q).raises # None
                    THEN q.raised = OwnDispatch(q).raises /\ q.handler_calls = 0
                    ELSE /\ q.chain = OwnDispatch(q).chain
                         /\ q.kwargs = OwnDispatch(q).kwargs
                         /\ q.calls =
                                OwnDispatch(q).calls
                                \o (IF q.handler_calls = 1
                                    THEN << <<"handler", q.handler>> >> ELSE <<>>)
                                \o (IF q.returned
                                    THEN ResponseShimCalls(q.path, q.chain) ELSE <<>>))
               /\ (q.pc = "done" /\ q.raised = None =>
                    q.response.version_header =
                        IF q.down.version_header = None THEN Some(q.header[1])
                        ELSE q.down.version_header)

C22_Witness ==
    \E r, s \in DOMAIN req :
        /\ r # s
        /\ req[r].pc = "handler"
        /\ req[r].header = Some(V1_0)
        /\ Len(req[r].chain) > 1
        /\ WentThroughShims(req[r])
        /\ req[s].pc = "back"
        /\ req[s].header = Some(V3_1)
        /\ req[s].returned
        /\ req[s].chain = <<>>


\* ------------------------------------------------------------------------
\* A caller of the pet shims: one shim applied to one payload, and the
\* wrapper's forward loop left after some hops; what matters is the object
\* handed in, as it is after the call
\* ------------------------------------------------------------------------

\* number of elements of the lists handed to a response shim
MaxItems == 2

RequestShimNames ==
    {"shim_pet_request_v1_to_v2", "shim_pet_request_v2_to_v3",
     "shim_pet_request_v3_to_v3_1"}

ResponseShimNames ==
    {"shim_pet_response_v2_to_v1", "shim_pet_response_v3_to_v2",
     "shim_pet_response_v3_1_to_v3"}

\* the version a shim takes its payload from
SourceVersion(shim_fn) ==
    CASE shim_fn = "shim_pet_request_v1_to_v2" -> V1_0
      [] shim_fn \in {"shim_pet_request_v2_to_v3", "shim_pet_response_v2_to_v1"} -> V2_0
      [] shim_fn \in {"shim_pet_request_v3_to_v3_1", "shim_pet_response_v3_to_v2"} -> V3_0
      [] shim_fn = "shim_pet_response_v3_1_to_v3" -> V3_1

\* the keyword arguments a request shim is given: with a body of the source
\* version (parsed JSON or the create model), or without a body
RequestArguments(shim_fn) ==
    {[request |-> "Request"]}
    \cup {[request |-> "Request", body |-> p] : p \in Payloads(SourceVersion(shim_fn))}

\* the records of a version, as the repository or a response shim builds them
RecordsOf(version_str) ==
    {Construct(PetRecordModelOf(version_str), DictSet(f, "id", 1)) :
        f \in PayloadFields(version_str)}

\* the records put into lists: two species, one of them new in 3.0
ListedRecords(version_str) ==
    {rec \in RecordsOf(version_str) :
        /\ rec.f["species"] \in {"cat", "rabbit"} \cap SpeciesOf(rec.type)
        /\ "birth_date" \in DOMAIN rec.f => rec.f["birth_date"] = None
        /\ "size" \in DOMAIN rec.f => rec.f["size"] = "small"
        /\ "tags" \in DOMAIN rec.f => rec.f["tags"] = <<>>}

\* largest age in months, either side of zero, of the records converted
MaxMonths == 25

\* PetV3 records of every species and of every age up to the largest
AgedRecords ==
    {Construct("PetV3", [id |-> 1, name |-> "Fluffy", species |-> sp, age_months |-> m]) :
        sp \in PetSpeciesV3, m \in (0 - MaxMonths)..MaxMonths}

\* the results a response shim is given: None, a record, a list of records
ResponseArguments(shim_fn) ==
    {NoneValue}
    \cup RecordsOf(SourceVersion(shim_fn))
    \cup {ListOf(items) :
            items \in UNION {[1..n -> ListedRecords(SourceVersion(shim_fn))] :
                                n \in 0..MaxItems}}
    \cup (IF shim_fn = "shim_pet_response_v3_to_v2" THEN AgedRecords ELSE {})

\* the dict a request shim assigns into is its argument ("data =
\* request_data"), not a deep copy of it ("data = copy.deepcopy(...)")
WorksOnArgument(shim_fn) ==
    shim_fn \in {"shim_pet_request_v2_to_v3", "shim_pet_request_v3_to_v3_1"}

\* the dict a request shim was given, after the call: the assignment
\* data['body'] = ... is an assignment to the argument when data is the
\* argument
RequestArgumentAfter(shim_fn, request_data) ==
    IF WorksOnArgument(shim_fn) THEN ApplyRequestShim(shim_fn, request_data)
    ELSE request_data

\* the result a response shim was given, after the call: the shim changes
\* the dict model_dump() built and returns a new model or a new list
ResponseArgumentAfter(shim_fn, response_data) == response_data

\* lines 165-180 for the first n hops: kwargs, the dict transformed_kwargs
\* built from it, and whether the two are the same object
RECURSIVE HopsApplied(_, _, _, _, _, _)
HopsApplied(table, path, version_chain, i, n, acc) ==
    IF i > n THEN acc
    ELSE LET request_shim == get_shim(table, path, version_chain[i], version_chain[i + 1])
         IN IF request_shim = None
            THEN HopsApplied(table, path, version_chain, i + 1, n, acc)
            ELSE LET out == ApplyRequestShim(request_shim[1], acc.transformed_kwargs)
                     same == acc.same_object /\ WorksOnArgument(request_shim[1])
                 IN HopsApplied(table, path, version_chain, i + 1, n,
                        [kwargs |-> IF same THEN out ELSE acc.kwargs,
                         transformed_kwargs |-> out,
                         same_object |-> same])

InitShimCalls ==
    /\ boot = Len(PetRoutes) + 1
    /\ endpoints = StartupEndpoints
    /\ request_shims = StartupRequestShims
    /\ response_shims = StartupResponseShims
    /\ pets = <<>>
    /\ req = [r \in Requests |-> IdleRequest]
    /\ history = <<>>
    /\ call \in UNION {{[op |-> "to shim a request", shim_fn |-> fn, argument |-> a] :
                            a \in RequestArguments(fn)} : fn \in RequestShimNames}
          \cup UNION {{[op |-> "to shim a response", shim_fn |-> fn, argument |-> a] :
                            a \in ResponseArguments(fn)} : fn \in ResponseShimNames}
          \cup UNION {{[op |-> "to abandon a chain", version |-> v, hops |-> n,
                         kwargs |-> [request |-> "Request", body |-> p]] :
                            p \in Payloads(v),
                            n \in 0..(Len(get_version_chain(StartupEndpoints[PetsPath],
                                                            ApiVersion(v))) - 1)} :
                        v \in {V1_0, V2_0, V3_0}}

\* returned = shim_fn(argument)
CallRequestShim ==
    /\ call.op = "to shim a request"
    /\ call' = [op |-> "request shim", shim_fn |-> call.shim_fn,
                argument |-> call.argument,
                returned |-> ApplyRequestShim(call.shim_fn, call.argument),
                argument_after |-> RequestArgumentAfter(call.shim_fn, call.argument)]
    /\ UNCHANGED <<registries, application, history>>

CallResponseShim ==
    /\ call.op = "to shim a response"
    /\ call' = [op |-> "response shim", shim_fn |-> call.shim_fn,
                argument |-> call.argument,
                returned |-> ApplyResponseShim(call.shim_fn, call.argument),
                argument_after |-> ResponseArgumentAfter(call.shim_fn, call.argument)]
    /\ UNCHANGED <<registries, application, history>>

\* the wrapper's copy of its kwargs and the first hops of its forward loop
CallAbandonChain ==
    /\ call.op = "to abandon a chain"
    /\ LET version_chain ==
                get_version_chain(endpoints[PetsPath], ApiVersion(call.version))
           left == HopsApplied(request_shims, PetsPath, version_chain, 1, call.hops,
                               [kwargs |-> call.kwargs,
                                transformed_kwargs |-> call.kwargs,
                                same_object |-> FALSE])
       IN call' = [op |-> "abandoned chain", version |-> call.version,
                   hops |-> call.hops, kwargs |-> call.kwargs,
                   transformed_kwargs |-> left.transformed_kwargs,
                   kwargs_after |-> left.kwargs]
    /\ UNCHANGED <<registries, application, history>>

NextShimCalls == CallRequestShim \/ CallResponseShim \/ CallAbandonChain

ShimCallSpec == InitShimCalls /\ [][NextShimCalls]_vars

\* C23: a shim leaves the object it was given as it was, and a forward loop
\* left after any number of hops leaves the wrapper's kwargs as they were
C23_ShimsLeaveArgumentsUnchanged ==
    /\ call.op \in {"request shim", "response shim"} =>
            call.argument_after = call.argument
    /\ call.op = "abandoned chain" => call.kwargs_after = call.kwargs

\* what holds: the first request shim and the response shims leave their
\* argument as it was, and so does any part of the wrapper's forward loop,
\* which works on a dict of its own
CopyingShimsLeaveArgumentsUnchanged ==
    /\ (call.op \in {"request shim", "response shim"} /\ ~WorksOnArgument(call.shim_fn))
            => call.argument_after = call.argument
    /\ call.op = "abandoned chain" => call.kwargs_after = call.kwargs


\* a 2.0 record is the conversion of a 3.0 record: the age is the number of
\* whole years in the months, age_months, size and tags are gone, a species
\* of 2.0 is kept and any other is "dog", the other fields are as they were
IsV3AsV2(rec, out) ==
    /\ out.type = "PetV2"
    /\ DOMAIN out.f = (DOMAIN rec.f \ {"age_months", "size", "tags"}) \cup {"age"}
    /\ 12 * out.f["age"] <= rec.f["age_months"]
    /\ rec.f["age_months"] < 12 * out.f["age"] + 12
    /\ out.f["species"] =
            (IF rec.f["species"] \in PetSpeciesV2 THEN rec.f["species"] ELSE "dog")
    /\ \A k \in {"id", "name", "birth_date"} : out.f[k] = rec.f[k]

\* C30: the response shim from 3.0 to 2.0 returns None and the empty list
\* as they are, converts a record as IsV3AsV2 says, and converts a list
\* element by element, in order, keeping its length
C30_V3ToV2Conversion ==
    (call.op = "response shim" /\ call.shim_fn = "shim_pet_response_v3_to_v2") =>
        IF IsFalsy(call.argument) THEN call.returned = call.argument
        ELSE IF IsList(call.argument)
        THEN /\ IsList(call.returned)
             /\ Len(call.returned.items) = Len(call.argument.items)
             /\ \A i \in 1..Len(call.argument.items) :
                    IsV3AsV2(call.argument.items[i], call.returned.items[i])
        ELSE IsV3AsV2(call.argument, call.returned)

C30_Witness ==
    /\ call.op = "response shim"
    /\ call.shim_fn = "shim_pet_response_v3_to_v2"
    /\ call.argument.type = "PetV3"
    /\ call.argument.f["species"] = "hamster"
    /\ call.argument.f["age_months"] = 23
    /\ call.returned.type = "PetV2"
    /\ call.returned.f["species"] = "dog"
    /\ call.returned.f["age"] = 1

\* ------------------------------------------------------------------------
\* A caller of the wrapper: the decorated handler is called with a request
\* whose state holds a version of its path; the handler is whatever callable
\* was decorated, given here by what its call does
\* ------------------------------------------------------------------------

\* the field values of the payloads handed to the wrapper
DispatchFields(version_str) ==
    {f \in PayloadFields(version_str) :
        /\ f.species \in {"cat", "rabbit"}
        /\ "birth_date" \in DOMAIN f => f.birth_date = None
        /\ "size" \in DOMAIN f => f.size = "small"
        /\ "tags" \in DOMAIN f => f.tags = <<>>}

\* the keyword arguments the wrapper is called with and the body of the
\* request: a body argument of the version's create model, or no body
\* argument and a request with a JSON body or with none
DispatchArguments(version_str) ==
    {[kwargs |-> [request |-> "Request",
                  body |-> [type |-> PetCreateModelOf(version_str), f |-> f]],
      body |-> NoneValue] : f \in DispatchFields(version_str)}
    \cup {[kwargs |-> [request |-> "Request"], body |-> [type |-> "dict", f |-> f]] :
            f \in DispatchFields(version_str)}
    \cup {[kwargs |-> [request |-> "Request"], body |-> NoneValue]}

\* what the call of the decorated handler does: it returns a result of the
\* latest version or raises
HandlerOutcomes(path) ==
    IF path = PetsPath
    THEN {[raises |-> None, result |-> x] :
            x \in {NoneValue} \cup ListedRecords(V3_1)
                  \cup {ListOf(items) :
                        items \in UNION {[1..n -> ListedRecords(V3_1)] :
                                            n \in 1..MaxItems}}}
         \cup {[raises |-> Some("HTTPException"), result |-> NoneValue]}
    ELSE {[raises |-> None, result |-> ListOf(Shelters)],
          [raises |-> Some("HTTPException"), result |-> NoneValue]}

\* the routes' paths and the versions registered for them
DispatchTargets ==
    {<<PetsPath, V1_0>>, <<PetsPath, V2_0>>, <<PetsPath, V3_0>>, <<PetsPath, V3_1>>,
     <<SheltersPath, V3_0>>, <<SheltersPath, V3_1>>}

InitWrapper ==
    /\ boot = Len(PetRoutes) + 1
    /\ endpoints = StartupEndpoints
    /\ request_shims = StartupRequestShims
    /\ response_shims = StartupResponseShims
    /\ pets = <<>>
    /\ req = [r \in Requests |-> IdleRequest]
    /\ history = <<>>
    /\ call \in UNION {{[op |-> "to dispatch", path |-> t[1], version |-> t[2],
                         kwargs |-> a.kwargs, body |-> a.body, handler |-> h] :
                            a \in DispatchArguments(t[2]), h \in HandlerOutcomes(t[1])} :
                        t \in DispatchTargets}

\* wrapper(**kwargs), lines 124-195: up to the handler call, the handler
\* call, the response shims
CallWrapper ==
    /\ call.op = "to dispatch"
    /\ LET w == WrapperEnter(endpoints, request_shims, call.path,
                             Some(ApiVersion(call.version)), call.kwargs, call.body)
           x == WrapperExit(response_shims, call.path, w.chain, call.handler.result)
           inputs == [path |-> call.path, version |-> call.version,
                      kwargs |-> call.kwargs, body |-> call.body,
                      handler |-> call.handler]
       IN call' =
            IF w.raises # None
            THEN [op |-> "wrapper", inputs |-> inputs, raises |-> w.raises,
                  chain |-> <<>>, handler_kwargs |-> None, calls |-> <<>>,
                  returned |-> None]
            ELSE IF call.handler.raises # None
            THEN [op |-> "wrapper", inputs |-> inputs, raises |-> call.handler.raises,
                  chain |-> w.chain, handler_kwargs |-> Some(w.kwargs),
                  calls |-> Append(w.calls, <<"handler", "endpoint_handler">>),
                  returned |-> None]
            ELSE [op |-> "wrapper", inputs |-> inputs, raises |-> None,
                  chain |-> w.chain, handler_kwargs |-> Some(w.kwargs),
                  calls |-> Append(w.calls, <<"handler", "endpoint_handler">>) \o x.calls,
                  returned |-> Some(x.result)]
    /\ UNCHANGED <<registries, application, history>>

NextWrapper == CallWrapper

WrapperSpec == InitWrapper /\ [][NextWrapper]_vars

\* the request shims registered for the pet list route, oldest hop first,
\* and the response shims, newest hop first
RequestLadder ==
    <<"shim_pet_request_v1_to_v2", "shim_pet_request_v2_to_v3",
      "shim_pet_request_v3_to_v3_1">>

ResponseLadder ==
    <<"shim_pet_response_v3_1_to_v3", "shim_pet_response_v3_to_v2",
      "shim_pet_response_v2_to_v1">>

\* how many hops between distinct versions lie above a version of a path
HopsAbove(path, version_str) ==
    IF path = PetsPath
    THEN CASE version_str = V1_0 -> 3 [] version_str = V2_0 -> 2
           [] version_str = V3_0 -> 1 [] OTHER -> 0
    ELSE IF version_str = V3_0 THEN 1 ELSE 0

\* the shims due for a request of a version, in the order they are due
RequestShimsDue(path, version_str) ==
    IF path = PetsPath
    THEN SubSeq(RequestLadder, 4 - HopsAbove(path, version_str), 3)
    ELSE <<>>

ResponseShimsDue(path, version_str) ==
    IF path = PetsPath
    THEN SubSeq(ResponseLadder, 1, HopsAbove(path, version_str))
    ELSE <<>>

\* each request shim of a sequence applied to what the one before returned
RECURSIVE ThroughRequestShims(_, _)
ThroughRequestShims(shims, data) ==
    IF shims = <<>> THEN data
    ELSE ThroughRequestShims(Tail(shims), ApplyRequestShim(Head(shims), data))

RECURSIVE ThroughResponseShims(_, _)
ThroughResponseShims(shims, result) ==
    IF shims = <<>> THEN result
    ELSE ThroughResponseShims(Tail(shims), ApplyResponseShim(Head(shims), result))

Events(kind, names) == [i \in 1..Len(names) |-> <<kind, names[i]>>]

\* the keyword arguments the forward loop starts from
WithBody(kwargs, body) ==
    IF "body" \in DOMAIN kwargs THEN kwargs ELSE DictSet(kwargs, "body", body)

\* the wrapper went past its short-circuit and its reading of the body
TookShimPath(c) ==
    /\ c.op = "wrapper"
    /\ HopsAbove(c.inputs.path, c.inputs.version) > 0
    /\ c.handler_kwargs # None

\* C25: past the short-circuit the wrapper's events are the request shims
\* of the chain's hops from the oldest hop up, then one call of the handler,
\* then (when the handler has returned) the response shims of the hops from
\* the newest hop down; the handler gets what the last request shim
\* returned, each shim what the one before returned, and the wrapper
\* returns what the last response shim returned
C25_EventsInChainOrder ==
    TookShimPath(call) =>
        LET in == call.inputs
            up == RequestShimsDue(in.path, in.version)
            down == ResponseShimsDue(in.path, in.version)
        IN /\ call.chain # <<>>
           /\ VEq(call.chain[1], ApiVersion(in.version))
           /\ Cardinality({i \in 1..Len(call.calls) : call.calls[i][1] = "handler"}) = 1
           /\ call.handler_kwargs =
                    Some(ThroughRequestShims(up, WithBody(in.kwargs, in.body)))
           /\ IF in.handler.raises # None
              THEN /\ call.calls =
                        Events("request_shim", up) \o << <<"handler", "endpoint_handler">> >>
                   /\ call.returned = None
              ELSE /\ call.calls =
                        Events("request_shim", up)
                        \o << <<"handler", "endpoint_handler">> >>
                        \o Events("response_shim", down)
                   /\ call.returned = Some(ThroughResponseShims(down, in.handler.result))

C25_Witness ==
    /\ TookShimPath(call)
    /\ call.inputs.path = PetsPath
    /\ call.inputs.version = V2_0
    /\ "body" \in DOMAIN call.inputs.kwargs
    /\ call.inputs.kwargs["body"].type = "PetCreateV2"
    /\ call.handler_kwargs[1]["body"].type = "PetCreateV3_1"
    /\ call.calls =
            << <<"request_shim", "shim_pet_request_v2_to_v3">>,
               <<"request_shim", "shim_pet_request_v3_to_v3_1">>,
               <<"handler", "endpoint_handler">>,
               <<"response_shim", "shim_pet_response_v3_1_to_v3">>,
               <<"response_shim", "shim_pet_response_v3_to_v2">> >>
    /\ call.returned # None
    /\ call.returned[1].type = "PetV2"


\* each element is below the next
StrictlyAscending(l) == \A i \in 1..(Len(l) - 1) : VLt(l[i], l[i + 1])

\* C26: the chain the wrapper computes for a registered version older than
\* the latest is strictly ascending, starts at the requested version, ends
\* at the latest, and has as many hops as there are distinct registered
\* versions above the requested one
C26_ChainStrictlyAscending ==
    TookShimPath(call) =>
        /\ VEq(call.chain[1], ApiVersion(call.inputs.version))
        /\ VEq(call.chain[Len(call.chain)], ApiVersion(V3_1))
        /\ StrictlyAscending(call.chain)
        /\ Len(call.chain) - 1 = HopsAbove(call.inputs.path, call.inputs.version)

\* what holds of the chain: it starts at the requested version, ends at the
\* latest and never descends; for /shelters, registered by one decorator,
\* it is strictly ascending
ChainNeverDescends ==
    TookShimPath(call) =>
        /\ VEq(call.chain[1], ApiVersion(call.inputs.version))
        /\ VEq(call.chain[Len(call.chain)], ApiVersion(V3_1))
        /\ Ascending(call.chain)
        /\ (call.inputs.path = SheltersPath =>
                /\ StrictlyAscending(call.chain)
                /\ Len(call.chain) - 1 = HopsAbove(call.inputs.path, call.inputs.version))


\* the hops of a chain as the forward loop and as the backward loop take them
UpHops(version_chain) ==
    [i \in 1..(Len(version_chain) - 1) |-> <<version_chain[i], version_chain[i + 1]>>]

DownHops(version_chain) ==
    [i \in 1..(Len(version_chain) - 1) |->
        <<version_chain[Len(version_chain) + 1 - i], version_chain[Len(version_chain) - i]>>]

\* the functions a table holds for the hops of a sequence, hops without a
\* function left out
RegisteredAlong(table, path, hops) ==
    LET HasShim(hop) == get_shim(table, path, hop[1], hop[2]) # None
        with == SelectSeq(hops, HasShim)
    IN [i \in 1..Len(with) |-> get_shim(table, path, with[i][1], with[i][2])[1]]

\* a hop of the chain has no request shim or no response shim
HasGap(c) ==
    \/ Len(RegisteredAlong(request_shims, c.inputs.path, UpHops(c.chain)))
            < Len(c.chain) - 1
    \/ Len(RegisteredAlong(response_shims, c.inputs.path, DownHops(c.chain)))
            < Len(c.chain) - 1

\* C27: when a hop of the chain has no shim, the wrapper raises nothing of
\* its own, calls the handler once with what the registered request shims
\* of the other hops make of the arguments, and returns what the registered
\* response shims of the other hops make of the result; with no shim at all
\* the arguments reach the handler and the result the caller unchanged
C27_MissingShimPassesThrough ==
    (TookShimPath(call) /\ HasGap(call)) =>
        LET in == call.inputs
            up == RegisteredAlong(request_shims, in.path, UpHops(call.chain))
            down == RegisteredAlong(response_shims, in.path, DownHops(call.chain))
        IN /\ call.raises = in.handler.raises
           /\ Cardinality({i \in 1..Len(call.calls) : call.calls[i][1] = "handler"}) = 1
           /\ Len(call.calls) =
                Len(up) + 1 + (IF in.handler.raises = None THEN Len(down) ELSE 0)
           /\ call.handler_kwargs =
                Some(ThroughRequestShims(up, WithBody(in.kwargs, in.body)))
           /\ (in.handler.raises = None =>
                    call.returned = Some(ThroughResponseShims(down, in.handler.result)))
           /\ (up = <<>> => call.handler_kwargs = Some(WithBody(in.kwargs, in.body)))
           /\ (down = <<>> /\ in.handler.raises = None =>
                    call.returned = Some(in.handler.result))

C27_Witness ==
    /\ TookShimPath(call)
    /\ HasGap(call)
    /\ call.inputs.path = PetsPath
    /\ call.inputs.version = V3_0
    /\ Len(call.chain) = 4
    /\ call.raises = None
    /\ call.calls =
            << <<"request_shim", "shim_pet_request_v3_to_v3_1">>,
               <<"handler", "endpoint_handler">>,
               <<"response_shim", "shim_pet_response_v3_1_to_v3">> >>
    /\ call.returned # None
    /\ call.returned[1].type = "PetV3"

====
